---------------------------- MODULE Spec2Model ----------------------------
(***************************************************************************)
(* A model of the resumelyze analysis code: the section segmenter, the      *)
(* lazy model loaders, the feedback analyzers, the section scorer and       *)
(* grader, and the request handlers of both servers.                        *)
(*                                                                          *)
(* Text is modelled as a sequence of lines, a line as a sequence of tokens  *)
(* (strings) that stand for the words of the line joined by single spaces;  *)
(* the empty sequence is a blank line.  What a regular expression of the    *)
(* source matches is given per token of the vocabulary in use.              *)
(***************************************************************************)
EXTENDS Integers, Sequences, FiniteSets, TLC

VARIABLES
    \* detect_sections (nlp_engine.py)
    lines,              \* the lines of text.split("\n") consumed so far
    sections,           \* the dict built so far: section name -> text
    current_section,    \* the cursor
    current_lines,      \* the lines accumulated since the last boundary
    seg_pc,             \* "loop" while lines are read, "done" after the return
    \* _get_model (semantic.py) and _get_nlp (nlp_engine.py)
    handle,             \* the module globals _model and _nlp: 0 is None, n the n-th object built
    built,              \* per global, how many model objects have been built
    replaced,           \* per global, whether a stored handle was overwritten
    t_pc,               \* per calling thread, its position in the getter
    t_kind,             \* per calling thread, the getter it is in
    t_obj,              \* per calling thread, the object its load built
    t_calls,            \* per calling thread, the calls it has made
    \* analyze_action_verbs (verb_analyzer.py)
    verb_state,         \* found_weak, found_strong, seen_weak, seen_strong
    verb_n,             \* the lines read so far
    verb_result,        \* the returned dict
    verb_pc,            \* "loop" while lines are read, "done" after the return
    \* analyze_quantification (quantifier.py)
    quant_state,        \* total_bullets and quantified_bullets
    quant_seen,         \* what the text read so far is made of (for the claims)
    quant_result,       \* the returned dict
    quant_pc,           \* "loop" while lines are read, "done" after the return
    \* score_section (section_scorer.py)
    sec_model,          \* whether _section_model and _section_scaler are set
    sec_args,           \* the arguments of the call in progress
    sec_features,       \* the feature vector once extracted, else <<>>
    sec_engine,         \* the calls of the embedding model made for this call
    sec_result,         \* the returned dict, <<>> before the return
    sec_pc,             \* the position in score_section
    \* server.py
    gemini_available,   \* the module global of that name
    srv_request,        \* the request being served
    srv_entered,        \* the analysis functions the handler has called for it
    local_result,       \* the dict local_result of hybrid_analyze, <<>> before it is set
    srv_returned,       \* what analyze_locally returned, as it returned it
    srv_ai,             \* the AI pass: candidates tried, the answer's kind, the exception raised
    srv_response,       \* the status and body sent
    srv_pc,             \* the position in the handler
    \* the ML server (main.py)
    pipe_models,        \* _models_ready, _model_status and the model globals
    pipe_request,       \* the request being served, and whether it entered the pipeline
    pipe_work,          \* the locals of analyze_resume computed so far
    pipe_grade,         \* what compute_grade returned, with the mean it used
    pipe_response,      \* the status and the result sent
    pipe_pc,            \* the position in the handler
    \* compute_ats_score (ats_scorer.py)
    ats_model,          \* whether _ats_model and _ats_scaler are set
    ats_args,           \* the keyword_density argument of the call in progress
    ats_features,       \* the feature vector once extracted
    ats_result,         \* the score returned and the path that gave it
    ats_pc,             \* the position in compute_ats_score
    \* compute_grade (grader.py)
    grade_model,        \* whether _grade_model and _grade_scaler are set
    grade_args,         \* the arguments of the call
    grade_result,       \* the returned dict, with the mean it used
    grade_pc,           \* the position in compute_grade
    \* compute_keyword_overlap (nlp_engine.py)
    overlap_args,       \* the arguments of the call
    overlap_result,     \* found, missing and density as returned
    overlap_pc,         \* idle before the call, done after the return
    \* detect_cliches (cliche_detector.py)
    cliche_text,        \* the lines of the resume text read so far
    cliche_found,       \* the list returned: the phrases found, each with the pass that found it
    cliche_pc,          \* read while the text is read, done after the return
    \* the scores of an analysis result (main.py, backend/analyzer.py)
    result_mode,        \* ml for analyze_resume, local for analyze_locally
    result_scores,      \* the score fields just filled, each a pair of its name and its value
    result_density,     \* keyword_density as the result carries it
    result_request,     \* the request of analyze_resume and the sections of its resume
    result_pc,          \* idle, request after step 1 of analyze_resume began, then done
    \* the functions of semantic.py called on their own
    sem_args,           \* the function entered and its arguments
    sem_encodes,        \* the calls of encode_texts made
    sem_result,         \* what the function returned
    sem_pc,             \* idle, entered, done
    \* compute_recommended_roles (grader.py)
    role_text,          \* the lines of the resume text read so far
    role_result,        \* the list of roles returned
    role_pc,            \* read while the text is read, done after the return
    \* extract_keywords called on its own (nlp_engine.py)
    kw_text,            \* the lines of the text read so far
    kw_top_n,           \* the top_n of the call
    kw_result,          \* the list of keywords returned
    kw_pc,              \* read while the text is read, done after the return
    \* compute_readability called on its own (nlp_engine.py, backend/analyzer.py)
    read_call,          \* the module of the function called and the measure of its text
    read_outcome,       \* returned with the value, or the exception raised
    read_pc,            \* idle, entered, done
    \* _rule_based_section_score on any feature vector
    rule_args,          \* the features and the section's name
    rule_result,        \* the four terms, the value returned and the final score
    rule_pc,            \* idle, called, scored
    \* compute_jd_match_score on any similarities
    match_args,         \* full_sim and section_sims, in hundredths
    match_result,       \* the score returned
    match_pc,           \* idle, blend, done
    \* The content improver
    imp_text,           \* the lines of the resume
    imp_args,           \* the job description and max_improvements
    imp_result,         \* the calls of _try_improve made and the items returned
    imp_pc,             \* idle, done
    \* tokenize, character by character
    tok_text,           \* the characters of the text
    tok_pieces,         \* the pieces it was made of
    tok_result,         \* the tokens returned
    tok_pc,             \* idle, done
    \* get_gemini_response on its own
    gem_call,           \* whether Gemini is configured, and the candidates
    gem_next,           \* the place of the loop in the candidates
    gem_tried,          \* the names tried so far, each with its success
    gem_outcome,        \* what the call returned or raised
    gem_pc              \* idle, entered, loop, done

vars == <<lines, sections, current_section, current_lines, seg_pc,
          handle, built, replaced, t_pc, t_kind, t_obj, t_calls,
          verb_state, verb_n, verb_result, verb_pc,
          quant_state, quant_seen, quant_result, quant_pc,
          sec_model, sec_args, sec_features, sec_engine, sec_result, sec_pc,
          gemini_available, srv_request, srv_entered, local_result, srv_returned, srv_ai,
          srv_response, srv_pc,
          pipe_models, pipe_request, pipe_work, pipe_grade, pipe_response, pipe_pc,
          ats_model, ats_args, ats_features, ats_result, ats_pc,
          grade_model, grade_args, grade_result, grade_pc,
          overlap_args, overlap_result, overlap_pc,
          cliche_text, cliche_found, cliche_pc,
          result_mode, result_scores, result_density, result_request, result_pc,
          sem_args, sem_encodes, sem_result, sem_pc,
          role_text, role_result, role_pc,
          kw_text, kw_top_n, kw_result, kw_pc,
          read_call, read_outcome, read_pc,
          rule_args, rule_result, rule_pc,
          match_args, match_result, match_pc,
          imp_text, imp_args, imp_result, imp_pc,
          tok_text, tok_pieces, tok_result, tok_pc,
          gem_call, gem_next, gem_tried, gem_outcome, gem_pc>>

gemVars == <<gem_call, gem_next, gem_tried, gem_outcome, gem_pc>>

tokVars == <<tok_text, tok_pieces, tok_result, tok_pc>>

improveVars == <<imp_text, imp_args, imp_result, imp_pc>>

matchVars == <<match_args, match_result, match_pc>>

ruleVars == <<rule_args, rule_result, rule_pc>>

readVars == <<read_call, read_outcome, read_pc>>

kwVars == <<kw_text, kw_top_n, kw_result, kw_pc>>

roleVars == <<role_text, role_result, role_pc>>

semVars == <<sem_args, sem_encodes, sem_result, sem_pc>>

resultVars == <<result_mode, result_scores, result_density, result_request, result_pc>>

clicheVars == <<cliche_text, cliche_found, cliche_pc>>

overlapVars == <<overlap_args, overlap_result, overlap_pc>>

gradeVars == <<grade_model, grade_args, grade_result, grade_pc>>

atsVars == <<ats_model, ats_args, ats_features, ats_result, ats_pc>>

pipeVars == <<pipe_models, pipe_request, pipe_work, pipe_grade, pipe_response, pipe_pc>>

serverVars == <<gemini_available, srv_request, srv_entered, local_result, srv_returned, srv_ai,
                srv_response, srv_pc>>

scoreVars == <<sec_model, sec_args, sec_features, sec_engine, sec_result, sec_pc>>

quantVars == <<quant_state, quant_seen, quant_result, quant_pc>>

verbVars == <<verb_state, verb_n, verb_result, verb_pc>>

loadVars == <<handle, built, replaced, t_pc, t_kind, t_obj, t_calls>>

segVars == <<lines, sections, current_section, current_lines, seg_pc>>

\* What the actions of one component leave alone
exceptSeg == <<loadVars, verbVars, quantVars, scoreVars, serverVars, pipeVars, atsVars, gradeVars, overlapVars, clicheVars, resultVars, semVars, roleVars, kwVars, readVars, ruleVars, matchVars, improveVars, tokVars, gemVars>>
exceptLoad == <<segVars, verbVars, quantVars, scoreVars, serverVars, pipeVars, atsVars, gradeVars, overlapVars, clicheVars, resultVars, semVars, roleVars, kwVars, readVars, ruleVars, matchVars, improveVars, tokVars, gemVars>>
exceptVerb == <<segVars, loadVars, quantVars, scoreVars, serverVars, pipeVars, atsVars, gradeVars, overlapVars, clicheVars, resultVars, semVars, roleVars, kwVars, readVars, ruleVars, matchVars, improveVars, tokVars, gemVars>>
exceptQuant == <<segVars, loadVars, verbVars, scoreVars, serverVars, pipeVars, atsVars, gradeVars, overlapVars, clicheVars, resultVars, semVars, roleVars, kwVars, readVars, ruleVars, matchVars, improveVars, tokVars, gemVars>>
exceptScore == <<segVars, loadVars, verbVars, quantVars, serverVars, pipeVars, atsVars, gradeVars, overlapVars, clicheVars, resultVars, semVars, roleVars, kwVars, readVars, ruleVars, matchVars, improveVars, tokVars, gemVars>>
exceptServer == <<segVars, loadVars, verbVars, quantVars, scoreVars, pipeVars, atsVars, gradeVars, overlapVars, clicheVars, resultVars, semVars, roleVars, kwVars, readVars, ruleVars, matchVars, improveVars, tokVars, gemVars>>
exceptPipe == <<segVars, loadVars, verbVars, quantVars, scoreVars, serverVars, atsVars, gradeVars, overlapVars, clicheVars, resultVars, semVars, roleVars, kwVars, readVars, ruleVars, matchVars, improveVars, tokVars, gemVars>>
exceptAts == <<loadVars, verbVars, quantVars, scoreVars, serverVars, pipeVars, segVars, gradeVars, overlapVars, clicheVars, resultVars, semVars, roleVars, kwVars, readVars, ruleVars, matchVars, improveVars, tokVars, gemVars>>
exceptGrade == <<loadVars, verbVars, quantVars, scoreVars, serverVars, pipeVars, atsVars, segVars, overlapVars, clicheVars, resultVars, semVars, roleVars, kwVars, readVars, ruleVars, matchVars, improveVars, tokVars, gemVars>>
exceptOverlap == <<loadVars, verbVars, quantVars, scoreVars, serverVars, pipeVars, atsVars, gradeVars, segVars, clicheVars, resultVars, semVars, roleVars, kwVars, readVars, ruleVars, matchVars, improveVars, tokVars, gemVars>>
exceptCliche == <<loadVars, verbVars, quantVars, scoreVars, serverVars, pipeVars, atsVars, gradeVars, overlapVars, segVars, resultVars, semVars, roleVars, kwVars, readVars, ruleVars, matchVars, improveVars, tokVars, gemVars>>
exceptResult == <<loadVars, verbVars, quantVars, scoreVars, serverVars, pipeVars, atsVars, gradeVars, overlapVars, clicheVars, segVars, semVars, roleVars, kwVars, readVars, ruleVars, matchVars, improveVars, tokVars, gemVars>>
exceptSem == <<loadVars, verbVars, quantVars, scoreVars, serverVars, pipeVars, atsVars, gradeVars, overlapVars, clicheVars, resultVars, segVars, roleVars, kwVars, readVars, ruleVars, matchVars, improveVars, tokVars, gemVars>>
exceptRole == <<loadVars, verbVars, quantVars, scoreVars, serverVars, pipeVars, atsVars, gradeVars, overlapVars, clicheVars, resultVars, semVars, segVars, kwVars, readVars, ruleVars, matchVars, improveVars, tokVars, gemVars>>
exceptKw == <<loadVars, verbVars, quantVars, scoreVars, serverVars, pipeVars, atsVars, gradeVars, overlapVars, clicheVars, resultVars, semVars, roleVars, segVars, readVars, ruleVars, matchVars, improveVars, tokVars, gemVars>>
exceptRead == <<loadVars, verbVars, quantVars, scoreVars, serverVars, pipeVars, atsVars, gradeVars, overlapVars, clicheVars, resultVars, semVars, roleVars, kwVars, segVars, ruleVars, matchVars, improveVars, tokVars, gemVars>>
exceptRule == <<loadVars, verbVars, quantVars, scoreVars, serverVars, pipeVars, atsVars, gradeVars, overlapVars, clicheVars, resultVars, semVars, roleVars, kwVars, readVars, segVars, matchVars, improveVars, tokVars, gemVars>>
exceptMatch == <<loadVars, verbVars, quantVars, scoreVars, serverVars, pipeVars, atsVars, gradeVars, overlapVars, clicheVars, resultVars, semVars, roleVars, kwVars, readVars, ruleVars, segVars, improveVars, tokVars, gemVars>>
exceptImprove == <<loadVars, verbVars, quantVars, scoreVars, serverVars, pipeVars, atsVars, gradeVars, overlapVars, clicheVars, resultVars, semVars, roleVars, kwVars, readVars, ruleVars, matchVars, segVars, tokVars, gemVars>>
exceptTok == <<loadVars, verbVars, quantVars, scoreVars, serverVars, pipeVars, atsVars, gradeVars, overlapVars, clicheVars, resultVars, semVars, roleVars, kwVars, readVars, ruleVars, matchVars, improveVars, segVars, gemVars>>
exceptGem == <<loadVars, verbVars, quantVars, scoreVars, serverVars, pipeVars, atsVars, gradeVars, overlapVars, clicheVars, resultVars, semVars, roleVars, kwVars, readVars, ruleVars, matchVars, improveVars, tokVars, segVars>>

---------------------------------------------------------------------------
\* Generic helpers

\* The sum of a sequence of numbers, by halves
RECURSIVE SumSeq(_)
SumSeq(s) ==
    IF s = <<>> THEN 0
    ELSE IF Len(s) = 1 THEN s[1]
    ELSE SumSeq(SubSeq(s, 1, Len(s) \div 2)) + SumSeq(SubSeq(s, Len(s) \div 2 + 1, Len(s)))

\* The members of a sequence of sequences end to end, by halves
RECURSIVE Concat(_)
Concat(ss) ==
    IF ss = <<>> THEN <<>>
    ELSE IF Len(ss) = 1 THEN ss[1]
    ELSE Concat(SubSeq(ss, 1, Len(ss) \div 2)) \o Concat(SubSeq(ss, Len(ss) \div 2 + 1, Len(ss)))

\* The number of places of sequence s that hold x
Count(x, s) == Cardinality({i \in 1..Len(s) : s[i] = x})

RECURSIVE SumOver(_, _)
SumOver(S, f) ==
    IF S = {} THEN 0
    ELSE LET x == CHOOSE y \in S : TRUE IN f[x] + SumOver(S \ {x}, f)

\* The members of sequence s
Range(s) == {s[i] : i \in 1..Len(s)}

Min(a, b) == IF a < b THEN a ELSE b
Max(a, b) == IF a > b THEN a ELSE b

---------------------------------------------------------------------------
\* Lines and their text

\* A filler word of 62 characters, to build lines of 60 characters and more
LongWord == "internationalization-and-localization-of-customer-facing-tools"

\* The same word in capitals
LongUpperWord == "INTERNATIONALIZATION-AND-LOCALIZATION-OF-CUSTOMER-FACING-TOOLS"

\* str.lower() on the tokens of the vocabulary that hold capitals
Lower(tok) ==
    CASE tok = "Summary"     -> "summary"
      [] tok = "Skills:"     -> "skills:"
      [] tok = "Experience"  -> "experience"
      [] tok = "Education"   -> "education"
      [] tok = "Python,"     -> "python,"
      [] tok = "SQL"         -> "sql"
      [] tok = "Improved"    -> "improved"
      [] tok = "Managed"     -> "managed"
      [] tok = "Led"         -> "led"
      [] tok = "Python"      -> "python"
      [] tok = "We"          -> "we"
      [] tok = "Skills"      -> "skills"
      [] tok = "Built"       -> "built"
      [] tok = "APIs"        -> "apis"
      [] tok = "Cut"         -> "cut"
      [] tok = "Responsible" -> "responsible"
      [] tok = "RESPONSIBLE" -> "responsible"
      [] tok = "For"         -> "for"
      [] tok = "Results-Driven" -> "results-driven"
      [] tok = "QA"          -> "qa"
      [] tok = "EXPERIENCE" -> "experience"
      [] tok = "Grew" -> "grew"
      [] tok = LongUpperWord -> LongWord
      [] tok = "PROFESSIONAL" -> "professional"
      [] tok = "SHIPPED" -> "shipped"
      [] tok = "WORK" -> "work"
      [] tok = "Worked" -> "worked"
      [] tok = "Wrote" -> "wrote"
      [] OTHER               -> tok

\* len(line.strip()) of a line: its words and the single spaces between them
LineLen(line) ==
    IF line = <<>> THEN 0
    ELSE SumSeq([i \in 1..Len(line) |-> Len(line[i])]) + Len(line) - 1

\* "\n".join(ls).strip(): the blank lines at both ends go
StripLeft(ls) ==
    IF \A i \in 1..Len(ls) : ls[i] = <<>> THEN <<>>
    ELSE SubSeq(ls, CHOOSE i \in 1..Len(ls) :
                        ls[i] # <<>> /\ \A j \in 1..(i - 1) : ls[j] = <<>>, Len(ls))

StripRight(ls) ==
    IF \A i \in 1..Len(ls) : ls[i] = <<>> THEN <<>>
    ELSE SubSeq(ls, 1, CHOOSE i \in 1..Len(ls) :
                           ls[i] # <<>> /\ \A j \in (i + 1)..Len(ls) : ls[j] = <<>>)

StripText(ls) == StripRight(StripLeft(ls))

---------------------------------------------------------------------------
\* detect_sections

\* What "word\b" matches at the start of a token: the word itself, or the
\* word followed by punctuation
W(word) == {word, word \o ":"}

\* SECTION_PATTERNS in list order.  Each pattern is the set of its
\* alternatives, an alternative the sets of tokens it accepts as the first
\* words of the stripped line (re.I: the tokens are compared in lower case).
SECTION_PATTERNS == <<
    [alts |-> {<<W("summary")>>, <<{"professional"}, W("summary")>>}, name |-> "summary"],
    [alts |-> {<<W("objective")>>, <<{"career"}, W("objective")>>}, name |-> "summary"],
    [alts |-> {<<{"about"}, W("me")>>, <<W("profile")>>}, name |-> "summary"],
    [alts |-> {<<W("skill") \cup W("skills")>>,
               <<{"technical"}, W("skill") \cup W("skills")>>}, name |-> "skills"],
    [alts |-> {<<{"competence", "competencies"}>>,
               <<{"core"}, {"competence", "competencies"}>>}, name |-> "skills"],
    [alts |-> {<<{"technology", "technologies"}>>}, name |-> "skills"],
    [alts |-> {<<W("experience")>>, <<{"work"}, W("experience")>>}, name |-> "experience"],
    [alts |-> {<<W("experience")>>, <<{"professional"}, W("experience")>>}, name |-> "experience"],
    [alts |-> {<<W("employment")>>}, name |-> "experience"],
    [alts |-> {<<W("history")>>, <<{"work"}, W("history")>>}, name |-> "experience"],
    [alts |-> {<<W("education")>>}, name |-> "education"],
    [alts |-> {<<W("academic")>>}, name |-> "education"],
    [alts |-> {<<W("qualification") \cup W("qualifications")>>}, name |-> "education"],
    [alts |-> {<<W("project") \cup W("projects")>>}, name |-> "projects"],
    [alts |-> {<<{"personal", "key"}, W("project") \cup W("projects")>>}, name |-> "projects"],
    [alts |-> {<<W("certification") \cup W("certifications")>>}, name |-> "certifications"],
    [alts |-> {<<W("license") \cup W("licenses") \cup W("credential") \cup W("credentials")>>},
     name |-> "certifications"],
    [alts |-> {<<W("achievement") \cup W("achievements")>>}, name |-> "achievements"],
    [alts |-> {<<W("award") \cup W("awards")>>}, name |-> "achievements"],
    [alts |-> {<<W("language") \cup W("languages")>>}, name |-> "languages"],
    [alts |-> {<<W("interest") \cup W("interests")>>}, name |-> "interests"],
    [alts |-> {<<W("hobbie") \cup W("hobbies")>>}, name |-> "interests"],
    [alts |-> {<<{"volunteer", "volunteering"}>>}, name |-> "volunteer"],
    [alts |-> {<<W("publication") \cup W("publications")>>}, name |-> "publications"],
    [alts |-> {<<W("reference") \cup W("references")>>}, name |-> "references"]
>>

\* pattern.search(stripped) for one alternative
AltMatches(line, alt) ==
    /\ Len(line) >= Len(alt)
    /\ \A i \in 1..Len(alt) : Lower(line[i]) \in alt[i]

PatternMatches(line, p) == \E alt \in p.alts : AltMatches(line, alt)

\* The length below which a line can be a header
HeaderMaxLen == 60

\* The patterns tried on a line of any length
MatchedSectionAnyLength(line) ==
    IF \E i \in 1..Len(SECTION_PATTERNS) : PatternMatches(line, SECTION_PATTERNS[i])
    THEN LET i == CHOOSE j \in 1..Len(SECTION_PATTERNS) :
                    /\ PatternMatches(line, SECTION_PATTERNS[j])
                    /\ \A k \in 1..(j - 1) : ~PatternMatches(line, SECTION_PATTERNS[k])
         IN SECTION_PATTERNS[i].name
    ELSE ""

\* matched_section of a non-blank line: the name of the first pattern that
\* matches a line shorter than 60 characters, "" (None) otherwise
MatchedSection(line) ==
    IF LineLen(line) < HeaderMaxLen
       /\ \E i \in 1..Len(SECTION_PATTERNS) : PatternMatches(line, SECTION_PATTERNS[i])
    THEN LET i == CHOOSE j \in 1..Len(SECTION_PATTERNS) :
                    /\ PatternMatches(line, SECTION_PATTERNS[j])
                    /\ \A k \in 1..(j - 1) : ~PatternMatches(line, SECTION_PATTERNS[k])
         IN SECTION_PATTERNS[i].name
    ELSE ""

\* sections[current_section] = content, when the accumulation strips to
\* something; an existing entry of that name is replaced
Flush(secs, cur, acc) ==
    IF acc # <<>> /\ StripText(acc) # <<>>
    THEN [k \in (DOMAIN secs) \cup {cur} |->
            IF k = cur THEN StripText(acc) ELSE secs[k]]
    ELSE secs

\* The state before the first line
SegStart ==
    [sections |-> [k \in {} |-> <<>>], current_section |-> "header",
     current_lines |-> <<>>]

\* The header line kept as the first line of its section
SegStepKeepingHeader(st, line) ==
    IF line = <<>>
    THEN [st EXCEPT !.current_lines = Append(@, <<>>)]
    ELSE IF MatchedSection(line) # ""
    THEN [sections |-> Flush(st.sections, st.current_section, st.current_lines),
          current_section |-> MatchedSection(line),
          current_lines |-> <<line>>]
    ELSE [st EXCEPT !.current_lines = Append(@, line)]

\* One pass of the loop body over line
SegStep(st, line) ==
    IF line = <<>>
    THEN [st EXCEPT !.current_lines = Append(@, <<>>)]
    ELSE IF MatchedSection(line) # ""
    THEN [sections |-> Flush(st.sections, st.current_section, st.current_lines),
          current_section |-> MatchedSection(line),
          current_lines |-> <<>>]
    ELSE [st EXCEPT !.current_lines = Append(@, line)]

\* The flush after the loop ("Last section")
SegFinish(st) == Flush(st.sections, st.current_section, st.current_lines)

\* The loop over the lines; st = st has the state after a line computed
\* before the next line is read
RECURSIVE SegFold(_, _)
SegFold(st, ls) ==
    IF st = st /\ ls = <<>> THEN st ELSE SegFold(SegStep(st, Head(ls)), Tail(ls))

\* detect_sections(text) as a function of the whole text
detect_sections(text) == SegFinish(SegFold(SegStart, text))

\* The lines the documents of the segmenter's runs are made of
SegLines == {
    <<>>,
    <<"Summary">>,
    <<"Skills:", "Python,", "SQL">>,
    <<"work", "experience">>,
    <<"experience", "with", LongWord>>,
    <<"led", "team">>,
    <<"built", "apis">>
}

\* The longest document of a segmenter run
MaxDocLines == 4

SegIdle ==
    /\ lines = <<>>
    /\ sections = SegStart.sections
    /\ current_section = SegStart.current_section
    /\ current_lines = SegStart.current_lines
    /\ seg_pc = "loop"

SegState == [sections |-> sections, current_section |-> current_section,
             current_lines |-> current_lines]

\* for line in lines: one pass of the loop
SegLine(line) ==
    /\ seg_pc = "loop"
    /\ Len(lines) < MaxDocLines
    /\ lines' = Append(lines, line)
    /\ LET st == SegStep(SegState, line) IN
        /\ sections' = st.sections
        /\ current_section' = st.current_section
        /\ current_lines' = st.current_lines
    /\ UNCHANGED <<seg_pc, exceptSeg>>

\* The end of the text: the last flush and the return
SegReturn ==
    /\ seg_pc = "loop"
    /\ sections' = SegFinish(SegState)
    /\ seg_pc' = "done"
    /\ UNCHANGED <<lines, current_section, current_lines, exceptSeg>>

SegNext ==
    \/ \E line \in SegLines : SegLine(line)
    \/ SegReturn

---------------------------------------------------------------------------
\* _get_model and _get_nlp: the lazily loaded module globals

\* The globals: _model (semantic.py) and _nlp (nlp_engine.py)
Kinds == {"_model", "_nlp"}

\* The threads that call the getters
NThreads == 2
Threads == 1..NThreads

\* The calls one thread makes
MaxCalls == 2

LoadIdle ==
    /\ handle = [k \in Kinds |-> 0]
    /\ built = [k \in Kinds |-> 0]
    /\ replaced = [k \in Kinds |-> FALSE]
    /\ t_pc = [t \in Threads |-> "idle"]
    /\ t_kind = [t \in Threads |-> "_model"]
    /\ t_obj = [t \in Threads |-> 0]
    /\ t_calls = [t \in Threads |-> 0]

\* A thread enters _get_model or _get_nlp and tests "if <global> is None":
\* it goes on to load when it reads None, to the return otherwise
GetterCheck(t, k) ==
    /\ t_pc[t] = "idle"
    /\ t_calls[t] < MaxCalls
    /\ t_calls' = [t_calls EXCEPT ![t] = @ + 1]
    /\ t_kind' = [t_kind EXCEPT ![t] = k]
    /\ t_pc' = [t_pc EXCEPT ![t] = IF handle[k] = 0 THEN "load" ELSE "return"]
    /\ UNCHANGED <<handle, built, replaced, t_obj, exceptLoad>>

\* SentenceTransformer(SBERT_MODEL_NAME) / spacy.load(...): the expensive
\* load builds a new object
GetterLoad(t) ==
    /\ t_pc[t] \in {"load", "reload"}
    /\ built' = [built EXCEPT ![t_kind[t]] = @ + 1]
    /\ t_obj' = [t_obj EXCEPT ![t] = built[t_kind[t]] + 1]
    /\ t_pc' = [t_pc EXCEPT ![t] = "store"]
    /\ UNCHANGED <<handle, replaced, t_kind, t_calls, exceptLoad>>

\* The load raises.  In _get_nlp the first spacy.load is inside try/except
\* OSError, which downloads the model and loads again; any other failure
\* leaves the getter with the exception and the global as it was.
GetterLoadFails(t, oserror) ==
    /\ t_pc[t] \in {"load", "reload"}
    /\ t_pc' = [t_pc EXCEPT ![t] =
                  IF t_kind[t] = "_nlp" /\ t_pc[t] = "load" /\ oserror
                  THEN "reload" ELSE "idle"]
    /\ UNCHANGED <<handle, built, replaced, t_kind, t_obj, t_calls, exceptLoad>>

\* The assignment to the global
GetterStore(t) ==
    /\ t_pc[t] = "store"
    /\ handle' = [handle EXCEPT ![t_kind[t]] = t_obj[t]]
    /\ replaced' = [replaced EXCEPT ![t_kind[t]] = @ \/ handle[t_kind[t]] # 0]
    /\ t_pc' = [t_pc EXCEPT ![t] = "return"]
    /\ UNCHANGED <<built, t_kind, t_obj, t_calls, exceptLoad>>

\* return <global>
GetterReturn(t) ==
    /\ t_pc[t] = "return"
    /\ t_obj' = [t_obj EXCEPT ![t] = handle[t_kind[t]]]
    /\ t_pc' = [t_pc EXCEPT ![t] = "idle"]
    /\ UNCHANGED <<handle, built, replaced, t_kind, t_calls, exceptLoad>>

LoadNext ==
    \/ \E t \in Threads, k \in Kinds : GetterCheck(t, k)
    \/ \E t \in Threads : GetterLoad(t)
    \/ \E t \in Threads, oserror \in BOOLEAN : GetterLoadFails(t, oserror)
    \/ \E t \in Threads : GetterStore(t)
    \/ \E t \in Threads : GetterReturn(t)

---------------------------------------------------------------------------
\* analyze_action_verbs (verb_analyzer.py)

\* round(n / d) for n >= 0 and d > 0: Python rounds halves to even
RoundHalfEven(n, d) ==
    LET q == n \div d
        r == n % d
    IN IF 2 * r < d THEN q
       ELSE IF 2 * r > d THEN q + 1
       ELSE IF q % 2 = 0 THEN q ELSE q + 1

\* The keys of WEAK_VERBS: the weak verbs and verb phrases
WEAK_VERBS == {
    "managed", "helped", "worked", "worked on", "did", "made", "used",
    "got", "was responsible for", "was in charge of", "handled", "showed",
    "tried", "ran", "looked at", "checked", "set up", "put together",
    "came up with", "went through", "took care of", "talked to", "changed",
    "fixed", "started", "ended", "improved", "increased", "decreased",
    "assisted", "participated", "communicated", "learned"
}

\* STRONG_VERBS
STRONG_VERBS == {
    "accelerated", "accomplished", "achieved", "acquired", "adapted",
    "administered", "advanced", "advocated", "amplified", "analyzed",
    "appointed", "approved", "architected", "assembled", "assessed",
    "attained", "audited", "authored", "automated", "balanced", "boosted",
    "budgeted", "built", "calculated", "captured", "centralized",
    "championed", "clarified", "coached", "collaborated", "compiled",
    "composed", "conceptualized", "conducted", "configured",
    "consolidated", "constructed", "consulted", "converted", "coordinated",
    "crafted", "cultivated", "customized", "debugged", "decentralized",
    "decreased", "defined", "delegated", "delivered", "deployed",
    "designed", "devised", "diagnosed", "digitized", "directed",
    "discovered", "documented", "doubled", "drove", "earned", "edited",
    "educated", "elevated", "eliminated", "empowered", "enabled",
    "encouraged", "engineered", "enhanced", "established", "evaluated",
    "examined", "exceeded", "executed", "expanded", "expedited",
    "experimented", "fabricated", "facilitated", "finalized", "forecasted",
    "formalized", "formulated", "founded", "generated", "governed", "grew",
    "guided", "halved", "headed", "identified", "illustrated",
    "implemented", "improved", "incorporated", "increased", "influenced",
    "initiated", "innovated", "inspected", "installed", "instituted",
    "integrated", "introduced", "invented", "investigated", "launched",
    "led", "leveraged", "licensed", "maintained", "mapped", "marketed",
    "maximized", "mediated", "mentored", "merged", "migrated", "minimized",
    "mobilized", "modernized", "modified", "monitored", "motivated",
    "navigated", "negotiated", "normalized", "obtained", "onboarded",
    "operated", "optimized", "orchestrated", "organized", "originated",
    "outperformed", "overhauled", "oversaw", "partnered", "piloted",
    "pioneered", "planned", "presented", "prioritized", "produced",
    "programmed", "projected", "promoted", "proposed", "prototyped",
    "provisioned", "published", "raised", "ranked", "reconciled",
    "redesigned", "reduced", "refactored", "refined", "reformed",
    "regulated", "remodeled", "renegotiated", "reorganized", "replaced",
    "reported", "researched", "resolved", "restructured", "revamped",
    "reviewed", "revitalized", "revolutionized", "scaled", "scheduled",
    "secured", "simplified", "solved", "spearheaded", "specified",
    "standardized", "steered", "streamlined", "strengthened", "structured",
    "succeeded", "supervised", "surpassed", "synthesized", "systematized",
    "targeted", "tested", "traced", "trained", "transformed",
    "transitioned", "translated", "tripled", "troubleshot", "uncovered",
    "unified", "upgraded", "validated", "visualized"
}

\* The tokens the bullet-marker expression ^[\s•\-\*•\d.)]+ removes whole
BulletTokens == {"-", "*", "1.", "2)"}

\* re.sub(r"^[\s•\-\*•\d.)]+", "", line).strip()
RECURSIVE StripBullets(_)
StripBullets(line) ==
    IF line # <<>> /\ Head(line) \in BulletTokens
    THEN StripBullets(Tail(line)) ELSE line

\* stripped.lower().split()
LowerWords(line) == [i \in 1..Len(line) |-> Lower(line[i])]

\* " ".join(words[:n]) if len(words) >= n else ""
RECURSIVE FirstWords(_, _)
FirstWords(words, n) ==
    IF Len(words) < n THEN ""
    ELSE IF n = 1 THEN words[1]
    ELSE FirstWords(words, n - 1) \o " " \o words[n]

\* matched_weak: the longest of the first three, two, one words that is a
\* key of WEAK_VERBS, "" (None) when none is
MatchedWeak(words) ==
    IF FirstWords(words, 3) \in WEAK_VERBS THEN FirstWords(words, 3)
    ELSE IF FirstWords(words, 2) \in WEAK_VERBS THEN FirstWords(words, 2)
    ELSE IF words[1] \in WEAK_VERBS THEN words[1]
    ELSE ""

\* The state before the first line
VerbStart ==
    [found_weak |-> <<>>, found_strong |-> <<>>,
     seen_weak |-> {}, seen_strong |-> {}]

\* One pass of the loop body
VerbStep(st, line) ==
    LET words == LowerWords(StripBullets(line)) IN
    IF words = <<>> THEN st
    ELSE IF MatchedWeak(words) # "" /\ MatchedWeak(words) \notin st.seen_weak
    THEN [st EXCEPT !.found_weak = Append(@, MatchedWeak(words)),
                    !.seen_weak = @ \cup {MatchedWeak(words)}]
    ELSE IF words[1] \in STRONG_VERBS /\ words[1] \notin st.seen_strong
    THEN [st EXCEPT !.found_strong = Append(@, words[1]),
                    !.seen_strong = @ \cup {words[1]}]
    ELSE st

\* seq[:n]
Take(seq, n) == SubSeq(seq, 1, Min(n, Len(seq)))

\* The score and the returned dict (without the suggestion texts)
VerbResult(st) ==
    LET total == Len(st.found_weak) + Len(st.found_strong)
        score == IF total = 0 THEN 30
                 ELSE RoundHalfEven(Len(st.found_strong) * 80, total) + 20
    IN [score |-> Max(0, Min(100, score)),
        weak_verbs |-> Take(st.found_weak, 10),
        strong_verbs |-> Take(st.found_strong, 10)]

RECURSIVE VerbFold(_, _)
VerbFold(st, ls) ==
    IF st = st /\ ls = <<>> THEN st ELSE VerbFold(VerbStep(st, Head(ls)), Tail(ls))

\* analyze_action_verbs(text) as a function of the whole text
analyze_action_verbs(text) == VerbResult(VerbFold(VerbStart, text))

\* The lines the texts of the verb analyzer's runs are made of
VerbLines == {
    <<>>,
    <<"-">>,
    <<"-", "Improved", "latency">>,
    <<"improved", "builds">>,
    <<"Managed", "team">>,
    <<"Led", "team">>,
    <<"worked", "on", "apis">>,
    <<"worked", "hard">>,
    <<"was", "responsible", "for", "builds">>,
    <<"python", "sql">>
}

\* The longest text of a verb analyzer run
MaxVerbLines == 3

VerbIdle ==
    /\ verb_state = VerbStart
    /\ verb_n = 0
    /\ verb_result = [score |-> 0, weak_verbs |-> <<>>, strong_verbs |-> <<>>]
    /\ verb_pc = "loop"

\* for line in lines: one pass of the loop
VerbLine(line) ==
    /\ verb_pc = "loop"
    /\ verb_n < MaxVerbLines
    /\ verb_n' = verb_n + 1
    /\ verb_state' = VerbStep(verb_state, line)
    /\ UNCHANGED <<verb_result, verb_pc, exceptVerb>>

\* The end of the text: the score and the return
VerbReturn ==
    /\ verb_pc = "loop"
    /\ verb_result' = VerbResult(verb_state)
    /\ verb_pc' = "done"
    /\ UNCHANGED <<verb_state, verb_n, exceptVerb>>

VerbNext ==
    \/ \E line \in VerbLines : VerbLine(line)
    \/ VerbReturn

---------------------------------------------------------------------------
\* analyze_quantification (quantifier.py)

\* The words of the quantifier's texts
QuantVocab == {
    "$50K", "*", "-", "1,000,000", "1.", "10",
    "10+", "2", "3x", "5", "5%", "5-10",
    "50%", "95%ile", "EXPERIENCE", "PROFESSIONAL", "WORK", "bugs",
    "builds", "by", "class", "code", "conversion", "faster",
    "fixed", "for", "handled", "latency", "led", "made",
    "of", "projects", "raised", "ran", "ranked", "reached",
    "reduced", "requests", "saved", "served", "services", "shipped",
    "team", "the", "to", "top", "users", "whole",
    "wrote", "yearly", "years"
}

\* METRIC_PATTERNS in list order, each by what it matches among the words of
\* QuantVocab: within one word (full), across a word and the next (pair:
\* the end of the first, the start of the second), and across three words
\* (triple), the expression's \s* or \s+ standing at the joints.
METRIC_PATTERNS == <<
    \* \b\d+[%]\b
    [full |-> {"95%ile"},
     pair |-> <<{}, {}>>,
     triple |-> <<{}, {}, {}>>],
    \* \$[\d,]+(?:\.\d+)?(?:\s*[KMBkmb])?\b
    [full |-> {"$50K"},
     pair |-> <<{}, {}>>,
     triple |-> <<{}, {}, {}>>],
    \* \b\d+(?:\.\d+)?x\b
    [full |-> {"3x"},
     pair |-> <<{}, {}>>,
     triple |-> <<{}, {}, {}>>],
    \* \b\d+\+?\s*(?:users?|customers?|...|members?)\b
    [full |-> {},
     pair |-> <<{"1,000,000", "10", "10+", "2", "5", "5-10"}, {"users"}>>,
     triple |-> <<{}, {}, {}>>],
    \* \b\d+\+?\s*(?:projects?|...|systems?)\b
    [full |-> {},
     pair |-> <<{"1,000,000", "10", "10+", "2", "5", "5-10"}, {"projects", "services"}>>,
     triple |-> <<{}, {}, {}>>],
    \* \b\d+\+?\s*(?:years?|...|hours?)\b
    [full |-> {},
     pair |-> <<{"1,000,000", "10", "10+", "2", "5", "5-10"}, {"years"}>>,
     triple |-> <<{}, {}, {}>>],
    \* \b(?:increased|...|generated)\s+(?:by\s+)?\d+
    [full |-> {},
     pair |-> <<{"reduced", "saved"}, {"1,000,000", "1.", "10", "10+", "2", "3x", "5", "5%", "5-10", "50%", "95%ile"}>>,
     triple |-> <<{"reduced", "saved"}, {"by"}, {"1,000,000", "1.", "10", "10+", "2", "3x", "5", "5%", "5-10", "50%", "95%ile"}>>],
    \* \b\d{1,3}(?:,\d{3})+\b
    [full |-> {"1,000,000"},
     pair |-> <<{}, {}>>,
     triple |-> <<{}, {}, {}>>],
    \* \b(?:top|bottom)\s+\d+[%]?\b
    [full |-> {},
     pair |-> <<{"top"}, {"1,000,000", "1.", "10", "10+", "2", "5", "5%", "5-10", "50%", "95%ile"}>>,
     triple |-> <<{}, {}, {}>>],
    \* \b\d+\s*(?:to|[-–])\s*\d+\b
    [full |-> {"5-10"},
     pair |-> <<{}, {}>>,
     triple |-> <<{"1,000,000", "10", "2", "5", "5-10"}, {"-", "to"}, {"1,000,000", "1.", "10", "10+", "2", "5", "5%", "5-10", "50%", "95%ile"}>>]
>>

\* The words that ^[•\-\*•\d.)]+ matches whole: a bullet mark
BulletMarks == {"*", "-", "------------", "1.", "10", "2", "2)", "5", "5-10"}

\* The words with a lower-case letter, and those with an upper-case letter
HasLowerCase == {"3x", "95%ile", "APIs", "Built", "Grew", "Led", "Managed", "Python", "We", "Worked", "Wrote", "across", "analytics", "and", "application.", "billing", "bugs", "builds", "by", "class", "code", "conversion", "customer", "documentation", "engineers", "faster", "fixed", "for", "handled", "hires", "latency", "leadership", "led", "made", "new", "of", "on", "pipelines", "process", "projects", "raised", "ran", "ranked", "reached", "reduced", "regions", "release", "requests", "require", "revenue", "reviews", "sales", "saved", "served", "services", "ship", "shipped", "system", "team", "the", "to", "top", "users", "whole", "workflow", "wrote", "yearly", "years"}

HasUpperCase == {"$50K", "APIs", "Built", "EXPERIENCE", "Grew", LongUpperWord, "Led", "Managed", "PROFESSIONAL", "Python", "SHIPPED", "SQL", "WORK", "We", "Worked", "Wrote"}

\* The words that hold a digit, and those that are a percentage (digits, %)
HasDigit == {"$50K", "1,000,000", "1.", "10", "10+", "2", "2)", "3x", "5", "5%", "5-10", "50%", "95%ile"}

PercentWords == {"5%", "50%"}

\* The lines the texts of the quantifier's runs are made of
QuantLines == {
    <<>>,
    <<"-", "raised", "conversion", "by", "50%">>,
    <<"-", "latency", "reduced", "by", "50%">>,
    <<"-", "wrote", "code", "for", "the", "team">>,
    <<"wrote", "code", "for", "the", "whole", "team">>,
    <<"wrote", "code">>,
    <<"PROFESSIONAL", "WORK", "EXPERIENCE">>,
    <<"-", "saved", "$50K", "yearly">>,
    <<"-", "made", "builds", "3x", "faster">>,
    <<"-", "served", "10+", "users">>,
    <<"*", "shipped", "5", "projects">>,
    <<"1.", "led", "team", "for", "2", "years">>,
    <<"-", "handled", "1,000,000", "requests">>,
    <<"-", "ranked", "top", "5%", "of", "class">>,
    <<"-", "ran", "5", "to", "10", "services">>,
    <<"2", "years">>,
    <<"-", "fixed", "5-10", "bugs">>,
    <<"-", "reached", "95%ile", "latency">>
}
\* pattern.search(bullet) for one pattern
MetricMatches(line, p) ==
    \/ \E i \in 1..Len(line) : line[i] \in p.full
    \/ \E i \in 1..(Len(line) - 1) :
          line[i] \in p.pair[1] /\ line[i + 1] \in p.pair[2]
    \/ \E i \in 1..(Len(line) - 2) :
          line[i] \in p.triple[1] /\ line[i + 1] \in p.triple[2]
          /\ line[i + 2] \in p.triple[3]

\* has_metric: some pattern of METRIC_PATTERNS is found in the bullet
HasMetric(line) ==
    \E i \in 1..Len(METRIC_PATTERNS) : MetricMatches(line, METRIC_PATTERNS[i])

\* header_words of _is_header_line
HEADER_WORDS == {
    "summary", "skills", "experience", "education", "projects",
    "certifications", "achievements", "awards", "objective",
    "profile", "qualifications", "references", "interests"
}

\* text.isupper(): some cased character, none of them lower case
IsUpper(line) ==
    /\ \E i \in 1..Len(line) : line[i] \in HasUpperCase
    /\ \A i \in 1..Len(line) : line[i] \notin HasLowerCase

\* _is_header_line(text)
IsHeaderLine(line) ==
    IF LineLen(line) > 50 THEN FALSE
    ELSE IF IsUpper(line) /\ LineLen(line) < 40 THEN TRUE
    ELSE Len(line) = 1 /\ \E w \in HEADER_WORDS : Lower(line[1]) \in W(w)

\* re.match(r"^[•\-\*•\d.)]+\s+\S", stripped): a bullet mark, then text
StartsWithBulletMark(line) == Len(line) >= 2 /\ line[1] \in BulletMarks

\* Whether the line goes into bullet_lines: a marked bullet, or a line of
\* more than 20 characters that is no header
IsBulletLine(line) ==
    \/ StartsWithBulletMark(line)
    \/ LineLen(line) > 20 /\ ~IsHeaderLine(line)

\* The counts before the first line
QuantStart == [total_bullets |-> 0, quantified_bullets |-> 0]

\* What one line adds to the counts
QuantStep(st, line) ==
    IF ~IsBulletLine(line) THEN st
    ELSE [total_bullets |-> st.total_bullets + 1,
          quantified_bullets |-> st.quantified_bullets
                                   + (IF HasMetric(line) THEN 1 ELSE 0)]

\* The score without its limits: round(ratio * 150 + 10)
QuantResultUncapped(st) ==
    LET score == IF st.total_bullets = 0 THEN 20
                 ELSE RoundHalfEven(st.quantified_bullets * 150 + 10 * st.total_bullets,
                                    st.total_bullets)
    IN [score |-> score,
        quantified_bullets |-> st.quantified_bullets,
        total_bullets |-> st.total_bullets]

\* The score and the returned dict (without the suggestion texts):
\* round(min(100, ratio * 150 + 10)), 20 without bullets
QuantResult(st) ==
    LET score == IF st.total_bullets = 0 THEN 20
                 ELSE RoundHalfEven(
                        Min(100 * st.total_bullets,
                            st.quantified_bullets * 150 + 10 * st.total_bullets),
                        st.total_bullets)
    IN [score |-> Max(0, Min(100, score)),
        quantified_bullets |-> st.quantified_bullets,
        total_bullets |-> st.total_bullets]

RECURSIVE QuantFold(_, _)
QuantFold(st, ls) ==
    IF st = st /\ ls = <<>> THEN st ELSE QuantFold(QuantStep(st, Head(ls)), Tail(ls))

\* analyze_quantification(text) as a function of the whole text
analyze_quantification(text) == QuantResult(QuantFold(QuantStart, text))

\* A line that holds a percentage such as 50%
HoldsPercentage(line) == \E i \in 1..Len(line) : line[i] \in PercentWords

\* A line with no number in it at all
HoldsNoNumber(line) == \A i \in 1..Len(line) : line[i] \notin HasDigit

\* The longest text of a quantifier run
MaxQuantLines == 10

QuantIdle ==
    /\ quant_state = QuantStart
    /\ quant_seen = [lines |-> 0, percent |-> 0, plain |-> 0]
    /\ quant_result = [score |-> 0, quantified_bullets |-> 0, total_bullets |-> 0]
    /\ quant_pc = "loop"

\* for line in lines: the line is read and, when a bullet, searched.
\* quant_seen records what the text read so far is made of.
QuantLine(line) ==
    /\ quant_pc = "loop"
    /\ quant_seen.lines < MaxQuantLines
    /\ quant_state' = QuantStep(quant_state, line)
    /\ quant_seen' =
         [lines |-> quant_seen.lines + 1,
          percent |-> quant_seen.percent
              + (IF IsBulletLine(line) /\ HoldsPercentage(line) THEN 1 ELSE 0),
          plain |-> quant_seen.plain
              + (IF IsBulletLine(line) /\ HoldsNoNumber(line) THEN 1 ELSE 0)]
    /\ UNCHANGED <<quant_result, quant_pc, exceptQuant>>

\* The end of the text: the score and the return
QuantReturn ==
    /\ quant_pc = "loop"
    /\ quant_result' = QuantResult(quant_state)
    /\ quant_pc' = "done"
    /\ UNCHANGED <<quant_state, quant_seen, exceptQuant>>

QuantNext ==
    \/ \E line \in QuantLines : QuantLine(line)
    \/ QuantReturn

---------------------------------------------------------------------------
\* Exact fractions, for the arithmetic the scorers do in floating point

RECURSIVE GCD(_, _)
GCD(a, b) == IF b = 0 THEN a ELSE GCD(b, a % b)

\* n / d in lowest terms, d > 0
Frac(n, d) ==
    LET g == GCD(IF n < 0 THEN -n ELSE n, d)
    IN  IF g = 0 THEN [n |-> 0, d |-> 1] ELSE [n |-> n \div g, d |-> d \div g]

FracInt(k) == [n |-> k, d |-> 1]
FracAdd(a, b) == Frac(a.n * b.d + b.n * a.d, a.d * b.d)
FracMul(a, b) == Frac(a.n * b.n, a.d * b.d)
FracLess(a, b) == a.n * b.d < b.n * a.d
FracMin(a, b) == IF FracLess(b, a) THEN b ELSE a
FracMax(a, b) == IF FracLess(a, b) THEN b ELSE a

\* round(x): halves go to the even neighbour, on both sides of zero
FracRound(a) ==
    IF a.n >= 0 THEN RoundHalfEven(a.n, a.d) ELSE 0 - RoundHalfEven(0 - a.n, a.d)

---------------------------------------------------------------------------
\* Keywords and counts (nlp_engine.py), over whole texts

\* The words of a text, line after line
Words(text) == Concat(text)

\* len(text) of a text: its lines and the newlines between them
TextLen(text) ==
    IF text = <<>> THEN 0
    ELSE SumSeq([i \in 1..Len(text) |-> LineLen(text[i])]) + Len(text) - 1

\* The number of characters of a text that are not white space
NonSpaceLen(text) == SumSeq([i \in 1..Len(Words(text)) |-> Len(Words(text)[i])])

\* not text.strip()
IsBlank(text) == StripText(text) = <<>>

\* re.findall(r"\b[a-zA-Z][a-zA-Z+#.]{1,30}\b", word.lower()) for the words of the
\* texts in use: the matches within one word (no match spans a space)
TokenizeWord(tok) ==
    CASE tok = "-" -> <<>>
      [] tok = "1." -> <<>>
      [] tok = "2)" -> <<>>
      [] tok = "30%" -> <<>>
      [] tok = "5" -> <<>>
      [] tok = "50%" -> <<>>
      [] tok = "APIs" -> <<"apis">>
      [] tok = "Built" -> <<"built">>
      [] tok = "Cut" -> <<"cut">>
      [] tok = "Education" -> <<"education">>
      [] tok = "Experience" -> <<"experience">>
      [] tok = "Go" -> <<"go">>
      [] tok = "Led" -> <<"led">>
      [] tok = "Python" -> <<"python">>
      [] tok = "Python," -> <<"python">>
      [] tok = "SQL" -> <<"sql">>
      [] tok = "Skills" -> <<"skills">>
      [] tok = "Skills:" -> <<"skills">>
      [] tok = "Summary" -> <<"summary">>
      [] tok = "We" -> <<"we">>
      [] tok = "a" -> <<>>
      [] tok = "b" -> <<>>
      [] tok = "c" -> <<>>
      [] tok = "d" -> <<>>
      [] tok = "e" -> <<>>
      [] tok = "f" -> <<>>
      [] tok = LongWord -> <<"internationalization", "and", "localization", "of", "customer", "facing", "tools">>
      [] OTHER -> <<tok>>

STOP_WORDS == {
    "a", "about", "above", "after", "again", "all", "already", "also",
    "among", "an", "and", "any", "are", "as", "at", "be",
    "because", "been", "before", "below", "between", "both", "but", "by",
    "can", "could", "did", "do", "does", "doing", "each", "etc",
    "few", "first", "for", "from", "get", "got", "had", "has",
    "have", "he", "her", "here", "his", "how", "i", "if",
    "in", "into", "is", "it", "its", "just", "last", "many",
    "may", "me", "might", "more", "much", "must", "my", "need",
    "new", "no", "nor", "not", "now", "of", "on", "one",
    "only", "or", "other", "our", "out", "over", "own", "per",
    "same", "shall", "she", "should", "since", "so", "some", "still",
    "such", "than", "that", "the", "their", "them", "then", "there",
    "these", "they", "this", "those", "through", "to", "too", "two",
    "under", "up", "use", "used", "using", "very", "was", "we",
    "well", "were", "what", "when", "where", "which", "while", "who",
    "whom", "why", "will", "with", "work", "working", "would", "you",
    "your"
}

\* The words in which r"\b\d+[%+,.]?\d*\b" finds a match (one match each)
NumberWords == {"1.", "2)", "30%", "5", "50%"}

\* The words BULLET_PATTERN matches at the start of a line
BulletHeads == {"-"}

\* The words NUMBERED_PATTERN matches at the start of a line when white space
\* follows
NumberedHeads == {"1.", "2)"}

\* re.sub(r"^[\s•\-\*\u2022\d.)]+", "", word): what is left of a word that begins
\* with list marks ("" when nothing is)
AfterMarks(tok) ==
    CASE tok = "-" -> ""
      [] tok = "1." -> ""
      [] tok = "2)" -> ""
      [] tok = "30%" -> "%"
      [] tok = "5" -> ""
      [] tok = "50%" -> "%"
      [] OTHER -> tok

\* kw in word.lower(): the pairs <<kw, word>> for which it holds, kw among the
\* keywords of the job descriptions in use
KeywordInWord == {
    <<"leadership", "leadership">>, <<"python", "Python">>, <<"python", "Python,">>, <<"python", "python">>,
    <<"require", "require">>, <<"sql", "SQL">>, <<"sql", "sql">>,
    <<"kubernetes", "kubernetes">>, <<"terraform", "terraform">>, <<"ansible", "ansible">>, <<"jenkins", "jenkins">>,
    <<"grafana", "grafana">>, <<"prometheus", "prometheus">>, <<"kafka", "kafka">>
}

\* word.lower().endswith(kw) and word.lower().startswith(kw), for the two halves
\* of a bigram that stands across two words of a line
WordEndsWith == {
    <<"leadership", "leadership">>, <<"python", "Python">>, <<"python", "python">>, <<"require", "require">>,
    <<"sql", "SQL">>, <<"sql", "sql">>,
    <<"kubernetes", "kubernetes">>, <<"terraform", "terraform">>, <<"ansible", "ansible">>, <<"jenkins", "jenkins">>,
    <<"grafana", "grafana">>, <<"prometheus", "prometheus">>, <<"kafka", "kafka">>
}

WordStartsWith == {
    <<"leadership", "leadership">>, <<"python", "Python">>, <<"python", "Python,">>, <<"python", "python">>,
    <<"require", "require">>, <<"sql", "SQL">>, <<"sql", "sql">>,
    <<"kubernetes", "kubernetes">>, <<"terraform", "terraform">>, <<"ansible", "ansible">>, <<"jenkins", "jenkins">>,
    <<"grafana", "grafana">>, <<"prometheus", "prometheus">>, <<"kafka", "kafka">>
}

\* tokenize(text)
tokenize(text) == Concat([i \in 1..Len(Words(text)) |-> TokenizeWord(Words(text)[i])])

\* The members of s that satisfy keep, in order
RECURSIVE Filter(_, _)
Filter(s, keep) ==
    IF s = <<>> THEN <<>>
    ELSE (IF keep[Head(s)] THEN <<Head(s)>> ELSE <<>>) \o Filter(Tail(s), keep)

\* The distinct members of s in the order of their first occurrence (the key
\* order of a Counter)
RECURSIVE Distinct(_)
Distinct(s) ==
    IF s = <<>> THEN <<>>
    ELSE LET rest == Distinct(SubSeq(s, 1, Len(s) - 1))
         IN  IF \E i \in 1..Len(rest) : rest[i] = s[Len(s)] THEN rest
             ELSE Append(rest, s[Len(s)])

\* Counter(s).most_common(): by falling count, ties in key order
RECURSIVE MostCommon(_, _)
MostCommon(keys, s) ==
    IF keys = <<>> THEN <<>>
    ELSE LET top == CHOOSE i \in 1..Len(keys) :
                        /\ \A j \in 1..Len(keys) : Count(keys[j], s) <= Count(keys[i], s)
                        /\ \A j \in 1..(i - 1) : Count(keys[j], s) < Count(keys[i], s)
         IN  <<keys[top]>> \o
             MostCommon(SubSeq(keys, 1, top - 1) \o SubSeq(keys, top + 1, Len(keys)), s)

\* The tokens kept, cut without being ranked by their counts
ExtractKeywordsUnranked(text, top_n) ==
    LET tokens == tokenize(text)
        keep == [t \in Range(tokens) |-> t \notin STOP_WORDS /\ Len(t) > 2]
    IN  Take(Distinct(Filter(tokens, keep)), top_n)

\* extract_keywords(text, top_n)
extract_keywords(text, top_n) ==
    LET tokens == tokenize(text)
        keep == [t \in Range(tokens) |-> t \notin STOP_WORDS /\ Len(t) > 2]
        filtered == Filter(tokens, keep)
    IN  Take(MostCommon(Distinct(filtered), filtered), top_n)

\* kw.lower() in resume_lower
InText(kw, text) ==
    \E i \in 1..Len(Words(text)) : <<Lower(kw), Words(text)[i]>> \in KeywordInWord

\* The keyword tested as it is written, capitals kept
KeywordOverlapCaseSensitive(text, jd_keywords) ==
    LET here == [k \in Range(jd_keywords) |->
                    \E i \in 1..Len(Words(text)) : <<k, Words(text)[i]>> \in KeywordInWord]
        found == Filter(jd_keywords, here)
    IN  [found |-> found,
         missing |-> Filter(jd_keywords, [k \in Range(jd_keywords) |-> ~here[k]]),
         density |-> Frac(Len(found), Max(Len(jd_keywords), 1))]

\* compute_keyword_overlap(resume_text, jd_keywords)
compute_keyword_overlap(text, jd_keywords) ==
    LET here == [k \in Range(jd_keywords) |-> InText(k, text)]
        found == Filter(jd_keywords, here)
    IN  [found |-> found,
         missing |-> Filter(jd_keywords, [k \in Range(jd_keywords) |-> ~here[k]]),
         density |-> Frac(Len(found), Max(Len(jd_keywords), 1))]

\* count_bullet_points(text): the lines that begin with a bullet, and those
\* that begin with a number and "." or ")" followed by white space
count_bullet_points(text) ==
    Cardinality({i \in 1..Len(text) :
        /\ text[i] # <<>>
        /\ \/ text[i][1] \in BulletHeads
           \/ /\ text[i][1] \in NumberedHeads
              /\ (Len(text[i]) >= 2 \/ i < Len(text))})

---------------------------------------------------------------------------
\* score_section (section_scorer.py)

STRONG_ACTION_VERBS == {
    "achieved", "architected", "automated", "built", "championed", "coached",
    "consolidated", "created", "decreased", "delivered", "designed", "developed",
    "directed", "drove", "eliminated", "engineered", "established", "exceeded",
    "executed", "expanded", "generated", "grew", "headed", "implemented",
    "improved", "increased", "influenced", "initiated", "innovated", "integrated",
    "introduced", "launched", "led", "leveraged", "maximized", "mentored",
    "modernized", "negotiated", "optimized", "orchestrated", "overhauled",
    "partnered", "pioneered", "produced", "propelled", "raised", "redesigned",
    "reduced", "revamped", "scaled", "secured", "simplified", "spearheaded",
    "streamlined", "strengthened", "surpassed", "transformed", "unified"
}

\* The first word of a line once its leading list marks are gone, in lower
\* case; "" when the line holds nothing else
RECURSIVE FirstWordAfterMarks(_)
FirstWordAfterMarks(line) ==
    IF line = <<>> THEN ""
    ELSE IF AfterMarks(Head(line)) = "" THEN FirstWordAfterMarks(Tail(line))
    ELSE Lower(AfterMarks(Head(line)))

\* action_verb_count: the lines of the stripped text that begin with a strong verb
ActionVerbCount(text) ==
    Cardinality({i \in 1..Len(StripText(text)) :
        FirstWordAfterMarks(StripText(text)[i]) \in STRONG_ACTION_VERBS})

\* The number of matches of r"\b\d+[%+,.]?\d*\b"
NumberCount(text) == Cardinality({i \in 1..Len(Words(text)) : Words(text)[i] \in NumberWords})

\* optimal_lengths.get(section_name, (30, 300))
OptimalLength(section_name) ==
    CASE section_name = "summary"    -> [min |-> 50,  max |-> 150]
      [] section_name = "skills"     -> [min |-> 30,  max |-> 200]
      [] section_name = "experience" -> [min |-> 100, max |-> 600]
      [] section_name = "education"  -> [min |-> 30,  max |-> 200]
      [] section_name = "projects"   -> [min |-> 50,  max |-> 400]
      [] OTHER                       -> [min |-> 30,  max |-> 300]

\* length_score
LengthScore(word_count, section_name) ==
    LET opt == OptimalLength(section_name)
    IN  IF word_count < opt.min
        THEN FracMax(Frac(1, 10), Frac(word_count, opt.min))
        ELSE IF 2 * word_count > 3 * opt.max
        THEN FracMax(Frac(1, 2), Frac(opt.max, word_count))
        ELSE FracInt(1)

\* A similarity argument below zero: the caller gave none
NoSim == -100

\* compute_semantic_similarity(text_a, text_b), cos the cosine of the two
\* embeddings in hundredths: blank texts short-circuit to 0, the rest is
\* clipped to 0..1
compute_semantic_similarity(text_a, text_b, cos) ==
    IF IsBlank(text_a) \/ IsBlank(text_b) THEN FracInt(0)
    ELSE FracMax(FracInt(0), FracMin(FracInt(1), Frac(cos, 100)))

\* Whether extract_section_features calls the embedding model
ConsultsEngine(section_text, jd_text, semantic_sim) ==
    /\ semantic_sim < 0
    /\ section_text # <<>> /\ jd_text # <<>>
    /\ ~IsBlank(section_text) /\ ~IsBlank(jd_text)

Flag(b) == IF b THEN FracInt(1) ELSE FracInt(0)

\* extract_section_features(section_text, jd_text, section_name, semantic_sim),
\* semantic_sim in hundredths, cos what the embedding model would answer
extract_section_features(section_text, jd_text, section_name, semantic_sim, cos) ==
    LET word_count == Len(tokenize(section_text))
        jd_kws == extract_keywords(jd_text, 30)
        sim == IF semantic_sim < 0
               THEN IF section_text # <<>> /\ jd_text # <<>>
                    THEN compute_semantic_similarity(section_text, jd_text, cos)
                    ELSE FracInt(0)
               ELSE Frac(semantic_sim, 100)
    IN  [semantic_sim  |-> sim,
         kw_density    |-> compute_keyword_overlap(section_text, jd_kws).density,
         word_scaled   |-> FracMin(Frac(word_count, 100), FracInt(10)),
         bullets       |-> FracMin(Frac(count_bullet_points(section_text), 3), FracInt(5)),
         numbers       |-> FracMin(Frac(NumberCount(section_text), 3), FracInt(5)),
         action_verbs  |-> FracMin(Frac(ActionVerbCount(section_text), 3), FracInt(5)),
         length_score  |-> LengthScore(word_count, section_name),
         exists        |-> Flag(word_count > 0),
         is_summary    |-> Flag(section_name = "summary"),
         is_skills     |-> Flag(section_name = "skills"),
         is_experience |-> Flag(section_name = "experience"),
         is_education  |-> Flag(section_name = "education")]

Times(k, a) == FracMul(FracInt(k), a)
Capped(a, k) == FracMin(a, FracInt(k))
Sum3(a, b, c) == FracAdd(a, FracAdd(b, c))

\* The structure quality with the min(..., k) of every term forgotten
StructScoreUncapped(f, section_name) ==
    CASE section_name = "experience" ->
            Sum3(Times(2, f.bullets), Times(2, f.numbers), Times(2, f.action_verbs))
      [] section_name = "skills" ->
            FracAdd(Times(2, f.word_scaled), Times(10, f.kw_density))
      [] section_name = "summary" ->
            Sum3(Times(10, f.length_score), Times(2, f.action_verbs), Times(2, f.numbers))
      [] section_name = "education" ->
            Sum3(Times(3, f.word_scaled), Times(2, f.numbers), FracInt(5))
      [] section_name = "projects" ->
            Sum3(Times(2, f.bullets), Times(2, f.numbers), Times(2, f.action_verbs))
      [] OTHER ->
            FracAdd(Times(2, f.word_scaled), Times(5, f.length_score))

\* struct_score of _rule_based_section_score: the if/elif chain on the
\* section's name
StructScore(f, section_name) ==
    CASE section_name = "experience" ->
            Sum3(Capped(Times(2, f.bullets), 8), Capped(Times(2, f.numbers), 6),
                 Capped(Times(2, f.action_verbs), 6))
      [] section_name = "skills" ->
            FracAdd(Capped(Times(2, f.word_scaled), 10), Times(10, f.kw_density))
      [] section_name = "summary" ->
            Sum3(Capped(Times(10, f.length_score), 10), Capped(Times(2, f.action_verbs), 5),
                 Capped(Times(2, f.numbers), 5))
      [] section_name = "education" ->
            Sum3(Capped(Times(3, f.word_scaled), 10), Capped(Times(2, f.numbers), 5),
                 FracInt(5))
      [] section_name = "projects" ->
            Sum3(Capped(Times(2, f.bullets), 6), Capped(Times(2, f.numbers), 6),
                 Capped(Times(2, f.action_verbs), 8))
      [] OTHER ->
            FracAdd(Capped(Times(2, f.word_scaled), 10), Capped(Times(5, f.length_score), 10))

\* The four terms of _rule_based_section_score
RuleParts(f, section_name) ==
    [base         |-> Times(40, f.semantic_sim),
     kw_score     |-> Times(25, f.kw_density),
     struct_score |-> StructScore(f, section_name),
     len_score    |-> Times(15, f.length_score)]

\* _rule_based_section_score(features, section_name)
rule_based_section_score(f, section_name) ==
    LET p == RuleParts(f, section_name)
        total == FracAdd(FracAdd(p.base, p.kw_score), FracAdd(p.struct_score, p.len_score))
    IN  FracMax(FracInt(5), FracMin(FracInt(100), total))

\* The tone chosen by the threshold of 50 alone, without the sentence kept
\* for scores of 80 or more
GenerateSuggestionToneOnly(score, section_name, f) ==
    [kind |-> IF score >= 50 THEN "good_start" ELSE "needs_work",
     section |-> section_name, items |-> <<>>]

\* _generate_suggestion(score, section_name, features): the opening of the
\* sentence (kind) and the advice that follows it (items)
generate_suggestion(score, section_name, f) ==
    LET If(c, item) == IF c THEN <<item>> ELSE <<>>
        suggestions ==
            If(FracLess(f.semantic_sim, Frac(4, 10)), "tailor")
            \o If(FracLess(f.kw_density, Frac(3, 10)), "keywords")
            \o If(section_name \in {"experience", "projects"} /\ FracLess(f.bullets, FracInt(1)), "bullets")
            \o If(section_name \in {"experience", "projects"} /\ FracLess(f.numbers, FracInt(1)), "metrics")
            \o If(section_name \in {"experience", "projects"} /\ FracLess(f.action_verbs, FracInt(1)), "verbs")
            \o If(section_name = "summary" /\ FracLess(f.word_scaled, Frac(1, 2)), "expand")
            \o If(section_name = "skills" /\ FracLess(f.kw_density, Frac(4, 10)), "skills")
            \o If(FracLess(f.length_score, Frac(1, 2)), "length")
    IN  IF score >= 80
        THEN [kind |-> "excellent", section |-> section_name, items |-> <<>>]
        ELSE [kind |-> IF score >= 50 THEN "good_start" ELSE "needs_work",
              section |-> section_name,
              items |-> IF suggestions # <<>> THEN suggestions
                        ELSE IF score < 50 THEN <<"strengthen">> ELSE <<"fine_tune">>]

\* The score and the sentence returned for a missing or too brief section
BriefScore == 15
BriefResult(section_name) ==
    [score |-> BriefScore,
     suggestion |-> [kind |-> "missing_or_brief", section |-> section_name, items |-> <<>>]]

\* The shortest stripped text that is scored on its features
MinSectionLen == 10

\* The test without the strip(): len(section_text) < 10
TooBriefUnstripped(section_text) ==
    section_text = <<>> \/ TextLen(section_text) < MinSectionLen

\* not section_text or len(section_text.strip()) < 10
TooBrief(section_text) ==
    section_text = <<>> \/ TextLen(StripText(section_text)) < MinSectionLen

\* max(5, min(100, round(score))) and the suggestion that goes with it
ScoredResult(raw, section_name, f) ==
    LET score == Max(5, Min(100, FracRound(raw)))
    IN  [score |-> score, suggestion |-> generate_suggestion(score, section_name, f)]

\* score_section(section_text, jd_text, section_name, semantic_sim) when no
\* trained model is loaded
score_section(section_text, jd_text, section_name, semantic_sim, cos) ==
    IF TooBrief(section_text) THEN BriefResult(section_name)
    ELSE LET f == extract_section_features(section_text, jd_text, section_name, semantic_sim, cos)
         IN  ScoredResult(rule_based_section_score(f, section_name), section_name, f)

ScoreTexts == {
    <<>>,
    <<<<>>, <<>>>>,
    <<<<"SQL">>>>,
    <<<<"a", "b", "c", "d", "e", "f">>>>,
    <<<<"built", "apis">>>>,
    <<<<"led", "team">>>>,
    <<<<>>, <<>>, <<"Python">>, <<>>, <<>>>>,
    <<<<"Python,", "SQL">>>>,
    <<<<"-", "built", "apis">>, <<"-", "cut", "latency", "by", "50%">>>>,
    <<<<"-", "Led", "team", "of", "5">>, <<"1.", "improved", "python", "pipeline", "30%">>, <<"2)", "wrote", "sql">>>>,
    <<<<"leadership", "and", "python", "require", "sql">>>>,
    <<[i \in 1..301 |-> "sql"]>>
}

ScoreJobs == {
    <<>>,
    <<<<>>, <<>>>>,
    <<<<"We", "require", "Python", "and", "SQL", "and", "leadership">>>>
}
\* The inputs of the calls
SectionNames == {"summary", "skills", "experience", "education", "projects", "certifications"}
SimValues == {NoSim, 0, 35, 40, 80, 100}
CosValues == {-20, 55, 100}
\* What a trained section model may predict
Predictions == {Frac(-3, 1), Frac(95, 2), Frac(130, 1)}

ScoreIdle ==
    /\ sec_model = [model |-> FALSE, scaler |-> FALSE, tried |-> FALSE]
    /\ sec_args = [text |-> <<>>, jd |-> <<>>, name |-> "", sim |-> NoSim]
    /\ sec_features = <<>>
    /\ sec_engine = 0
    /\ sec_result = <<>>
    /\ sec_pc = "idle"

\* _load_section_model(), once at startup: both files are loaded, or they are
\* not there, or a load fails (at the model, or at the scaler after the
\* model was set)
LoadSectionModel(outcome) ==
    /\ sec_pc = "idle" /\ ~sec_model.tried
    /\ sec_model' = CASE outcome = "loaded"       -> [model |-> TRUE,  scaler |-> TRUE,  tried |-> TRUE]
                      [] outcome = "scaler_fails" -> [model |-> TRUE,  scaler |-> FALSE, tried |-> TRUE]
                      [] OTHER                    -> [model |-> FALSE, scaler |-> FALSE, tried |-> TRUE]
    /\ UNCHANGED <<sec_args, sec_features, sec_engine, sec_result, sec_pc, exceptScore>>

\* A call of score_section
ScoreCall(text, jd, name, sim) ==
    /\ sec_pc = "idle"
    /\ sec_args' = [text |-> text, jd |-> jd, name |-> name, sim |-> sim]
    /\ sec_features' = <<>>
    /\ sec_engine' = 0
    /\ sec_result' = <<>>
    /\ sec_pc' = "check"
    /\ UNCHANGED <<sec_model, exceptScore>>

\* The early return for a missing or too brief text
ScoreTooBrief ==
    /\ sec_pc = "check"
    /\ TooBrief(sec_args.text)
    /\ sec_result' = <<BriefResult(sec_args.name)>>
    /\ sec_pc' = "done"
    /\ UNCHANGED <<sec_model, sec_args, sec_features, sec_engine, exceptScore>>

\* extract_section_features: the embedding model is asked when the caller
\* gave no similarity and both texts hold something
ScoreExtract(cos) ==
    /\ sec_pc = "check"
    /\ ~TooBrief(sec_args.text)
    /\ sec_features' = <<extract_section_features(sec_args.text, sec_args.jd,
                                                  sec_args.name, sec_args.sim, cos)>>
    /\ sec_engine' = IF ConsultsEngine(sec_args.text, sec_args.jd, sec_args.sim) THEN 1 ELSE 0
    /\ sec_pc' = "features"
    /\ UNCHANGED <<sec_model, sec_args, sec_result, exceptScore>>

\* extract_section_features when the embedding model cannot be had:
\* encode_texts raises and score_section lets it through
ScoreExtractRaises ==
    /\ sec_pc = "check"
    /\ ~TooBrief(sec_args.text)
    /\ ConsultsEngine(sec_args.text, sec_args.jd, sec_args.sim)
    /\ sec_engine' = 1
    /\ sec_pc' = "raised"
    /\ UNCHANGED <<sec_model, sec_args, sec_features, sec_result, exceptScore>>

\* The trained model's prediction, clipped and rounded
ScorePredict(prediction) ==
    /\ sec_pc = "features"
    /\ sec_model.model /\ sec_model.scaler
    /\ sec_result' = <<ScoredResult(prediction, sec_args.name, sec_features[1])>>
    /\ sec_pc' = "done"
    /\ UNCHANGED <<sec_model, sec_args, sec_features, sec_engine, exceptScore>>

\* The rule-based score, clipped and rounded
ScoreRuleBased ==
    /\ sec_pc = "features"
    /\ ~(sec_model.model /\ sec_model.scaler)
    /\ sec_result' = <<ScoredResult(rule_based_section_score(sec_features[1], sec_args.name),
                                    sec_args.name, sec_features[1])>>
    /\ sec_pc' = "done"
    /\ UNCHANGED <<sec_model, sec_args, sec_features, sec_engine, exceptScore>>

ScoreNext ==
    \/ \E outcome \in {"loaded", "absent", "model_fails", "scaler_fails"} : LoadSectionModel(outcome)
    \/ \E text \in ScoreTexts, jd \in ScoreJobs, name \in SectionNames, sim \in SimValues :
           ScoreCall(text, jd, name, sim)
    \/ ScoreTooBrief
    \/ \E cos \in CosValues : ScoreExtract(cos)
    \/ ScoreExtractRaises
    \/ \E prediction \in Predictions : ScorePredict(prediction)
    \/ ScoreRuleBased

---------------------------------------------------------------------------
\* The request handlers of server.py

\* The shortest resume text and job description the handlers accept
MinResumeLen == 50
MinJobLen == 10

\* GEMINI_MODEL_CANDIDATES: the first comes from the environment and may be
\* unset to "" (the loop skips an empty name)
GEMINI_MODEL_CANDIDATES(env_model) ==
    <<env_model, "models/gemini-2.5-flash", "models/gemini-2.0-flash",
      "models/gemini-flash-latest", "models/gemini-2.5-pro", "models/gemini-pro-latest">>

\* n blank lines and then the lines of text
Padded(n, text) == [i \in 1..n |-> <<>>] \o text

\* The request texts in use
ResumeTexts == {
    <<>>,
    <<<<"led", "team">>>>,
    Padded(50, <<<<"SQL">>>>),
    <<<<LongWord>>>>
}
JobTexts == {
    <<>>,
    <<<<"SQL">>>>,
    Padded(10, <<<<"SQL">>>>),
    <<<<"We", "require", "Python", "and", "SQL", "and", "leadership">>>>
}

\* What analyze_locally returns, among the results it can give (its text
\* fields stand together as one)
LocalResults == {
    [jd_match |-> 61, ats_score |-> 70, readability_score |-> 55,
     missing_keywords |-> <<"leadership">>, found_keywords |-> <<"python", "sql">>,
     section_scores |-> [s \in {"skills", "summary"} |->
                            IF s = "skills" THEN [score |-> 45, suggestion |-> "local skills"]
                            ELSE [score |-> 20, suggestion |-> "local summary"]],
     text |-> "local", analysis_mode |-> "local"],
    [jd_match |-> 18, ats_score |-> 35, readability_score |-> 50,
     missing_keywords |-> <<"python", "sql">>, found_keywords |-> <<>>,
     section_scores |-> [s \in {"skills"} |-> [score |-> 20, suggestion |-> "local skills"]],
     text |-> "local", analysis_mode |-> "local"]
}

\* The kinds of text a Gemini model may answer with
ResponseKinds == {"full", "sparse", "bad_number", "bad_sections", "empty_object",
                  "no_json", "broken_json", "none"}

\* parse_ai_response(response_text): whether it raises, and whether it
\* returns a non-empty dict
ParseRaises(kind) == kind = "none"
ParsesToObject(kind) == kind \in {"full", "sparse", "bad_number", "bad_sections"}

\* The dict ai_analyze builds from the parsed object, absent keys at their
\* defaults
AiResult(kind) ==
    IF kind = "full"
    THEN [jd_match |-> 80, ats_score |-> 75, readability_score |-> 90,
          missing_keywords |-> <<"docker">>, found_keywords |-> <<"python">>,
          section_scores |-> [s \in {"skills", "projects"} |->
                                 IF s = "skills" THEN [score |-> 90, suggestion |-> "ai skills"]
                                 ELSE [score |-> 40, suggestion |-> ""]],
          text |-> "ai", analysis_mode |-> "ai"]
    ELSE [jd_match |-> IF kind = "bad_number" THEN "high" ELSE 80,
          ats_score |-> 0, readability_score |-> 0,
          missing_keywords |-> <<>>, found_keywords |-> <<>>,
          section_scores |-> <<>>,
          text |-> "", analysis_mode |-> "ai"]

\* The exception, if any, that ai_analyze raises after get_gemini_response
\* returned: "" when it returns
AiAnalyzeRaises(kind) ==
    IF ParseRaises(kind) THEN "TypeError"
    ELSE IF ~ParsesToObject(kind) THEN "HTTPException 502"
    ELSE IF kind = "bad_sections" THEN "AttributeError"
    ELSE ""

\* The exception, if any, that the merge of hybrid_analyze raises
MergeRaises(kind) == IF kind = "bad_number" THEN "TypeError" ELSE ""

\* The ways to put the members of a set in a list: list(set(...))
Orderings(S) ==
    {s \in [1..Cardinality(S) -> S] : \A i, j \in 1..Cardinality(S) : s[i] = s[j] => i = j}

\* The merged section scores: the average of the two scores, the AI
\* suggestion unless it is empty
MergedSections(local, ai) ==
    LET none == [score |-> 0, suggestion |-> ""]
        At(r, s) == IF s \in DOMAIN r.section_scores THEN r.section_scores[s] ELSE none
    IN  [s \in (DOMAIN local.section_scores) \cup (DOMAIN ai.section_scores) |->
            [score |-> (At(local, s).score + At(ai, s).score) \div 2,
             suggestion |-> IF At(ai, s).suggestion # "" THEN At(ai, s).suggestion
                            ELSE At(local, s).suggestion]]

\* The merged dict of hybrid_analyze, the two keyword lists in the order given
Merged(local, ai, missing, found) ==
    [jd_match |-> (local.jd_match + ai.jd_match) \div 2,
     ats_score |-> (local.ats_score + ai.ats_score) \div 2,
     readability_score |-> (local.readability_score + ai.readability_score) \div 2,
     missing_keywords |-> Take(missing, 20),
     found_keywords |-> Take(found, 20),
     section_scores |-> MergedSections(local, ai),
     text |-> ai.text, analysis_mode |-> "hybrid"]

\* A handler that catches HTTPException only
CaughtIfHTTP(exception) ==
    exception \in {"HTTPException 400", "HTTPException 502", "HTTPException 503"}

\* except Exception: what the handler of hybrid_analyze catches
Caught(exception) == exception # ""

\* The status FastAPI answers with when an exception leaves a handler
StatusOf(exception) ==
    CASE exception = "HTTPException 400" -> 400
      [] exception = "HTTPException 502" -> 502
      [] exception = "HTTPException 503" -> 503
      [] OTHER -> 500

NoRequest == [endpoint |-> "", mode |-> "", text |-> <<>>, jd |-> <<>>]
NoResponse == [status |-> 0, body |-> <<>>]

ServerIdle ==
    /\ gemini_available = FALSE
    /\ srv_request = NoRequest
    /\ srv_entered = {}
    /\ local_result = <<>>
    /\ srv_returned = <<>>
    /\ srv_ai = [candidate |-> 0, env_model |-> "", kind |-> "", failed |-> ""]
    /\ srv_response = NoResponse
    /\ srv_pc = "boot"

\* The Gemini setup at import: available when a key is set and the client
\* is configured without an exception
GeminiSetup(has_key, configures, env_model) ==
    /\ srv_pc = "boot"
    /\ gemini_available' = (has_key /\ configures)
    /\ srv_ai' = [srv_ai EXCEPT !.env_model = env_model]
    /\ srv_pc' = "idle"
    /\ UNCHANGED <<srv_request, srv_entered, local_result, srv_returned, srv_response, exceptServer>>

Reject(request, status) ==
    /\ srv_request' = request
    /\ srv_entered' = {}
    /\ local_result' = <<>>
    /\ srv_returned' = <<>>
    /\ srv_ai' = [srv_ai EXCEPT !.candidate = 0, !.kind = "", !.failed = ""]
    /\ srv_response' = [status |-> status, body |-> <<>>]
    /\ srv_pc' = "responded"
    /\ UNCHANGED <<gemini_available, exceptServer>>

\* The dispatch on mode that ends both handlers of server.py
Dispatch(request) ==
    IF request.mode = "ai" /\ ~gemini_available THEN Reject(request, 503)
    ELSE /\ srv_request' = request
         /\ srv_entered' = IF request.mode = "ai" THEN {"ai_analyze"}
                           ELSE IF request.mode = "local" THEN {"analyze_locally"}
                           ELSE {"hybrid_analyze"}
         /\ local_result' = <<>>
         /\ srv_returned' = <<>>
         /\ srv_ai' = [srv_ai EXCEPT !.candidate = 0, !.kind = "", !.failed = ""]
         /\ srv_response' = NoResponse
         /\ srv_pc' = IF request.mode = "ai" THEN "gemini" ELSE "local"
         /\ UNCHANGED <<gemini_available, exceptServer>>

\* POST /api/analyze up to the dispatch: upload names what the request
\* carries ("file", "bad_type", "too_large", "unreadable", "text", "none")
AnalyzeResume(upload, resume, jd, mode) ==
    LET request == [endpoint |-> "/api/analyze", mode |-> mode, text |-> resume, jd |-> jd]
    IN  /\ srv_pc \in {"idle", "responded"}
        /\ IF upload \in {"bad_type", "too_large", "unreadable"} THEN Reject(request, 400)
           ELSE IF upload = "none" \/ (upload = "text" /\ resume = <<>>) THEN Reject(request, 400)
           ELSE IF resume = <<>> \/ TextLen(StripText(resume)) < MinResumeLen THEN Reject(request, 400)
           ELSE IF jd = <<>> \/ TextLen(StripText(jd)) < MinJobLen THEN Reject(request, 400)
           ELSE Dispatch(request)

\* POST /api/analyze/text up to the dispatch
AnalyzeText(resume, jd, mode) ==
    LET request == [endpoint |-> "/api/analyze/text", mode |-> mode, text |-> resume, jd |-> jd]
    IN  /\ srv_pc \in {"idle", "responded"}
        /\ IF resume = <<>> \/ TextLen(StripText(resume)) < MinResumeLen THEN Reject(request, 400)
           ELSE Dispatch(request)

Respond(status, body) ==
    /\ srv_response' = [status |-> status, body |-> body]
    /\ srv_pc' = "responded"

\* analyze_locally returns: the answer in local mode, the first step of
\* hybrid_analyze otherwise (which ends here when no key is set)
AnalyzeLocally(result) ==
    /\ srv_pc = "local"
    /\ srv_returned' = <<result>>
    /\ IF srv_request.mode = "local"
       THEN /\ local_result' = <<result>>
            /\ Respond(200, <<result>>)
       ELSE IF ~gemini_available
       THEN /\ local_result' = <<[result EXCEPT !.analysis_mode = "local (no AI key)"]>>
            /\ Respond(200, local_result')
       ELSE /\ local_result' = <<result>>
            /\ srv_pc' = "gemini"
            /\ UNCHANGED srv_response
    /\ UNCHANGED <<gemini_available, srv_request, srv_entered, srv_ai, exceptServer>>

\* An exception raised in the AI pass: hybrid_analyze catches it and returns
\* the local result under the fallback tag, ai mode lets it reach FastAPI
Raise(exception) ==
    IF srv_request.mode = "hybrid" /\ Caught(exception)
    THEN /\ local_result' = <<[local_result[1] EXCEPT !.analysis_mode = "local (AI fallback)"]>>
         /\ Respond(200, local_result')
    ELSE /\ Respond(StatusOf(exception), <<>>)
         /\ UNCHANGED local_result

\* get_gemini_response is entered with gemini_available set: both handlers
\* and hybrid_analyze test it first, and nothing resets it

\* get_gemini_response: the next candidate is skipped (empty name) or fails
GeminiCandidateFails ==
    /\ srv_pc = "gemini"
    /\ gemini_available
    /\ srv_ai.candidate < Len(GEMINI_MODEL_CANDIDATES(srv_ai.env_model))
    /\ srv_ai' = [srv_ai EXCEPT !.candidate = @ + 1]
    /\ UNCHANGED <<gemini_available, srv_request, srv_entered, local_result, srv_returned,
                   srv_response, srv_pc, exceptServer>>

\* get_gemini_response: the next candidate answers
GeminiCandidateAnswers(kind) ==
    /\ srv_pc = "gemini"
    /\ gemini_available
    /\ srv_ai.candidate < Len(GEMINI_MODEL_CANDIDATES(srv_ai.env_model))
    /\ GEMINI_MODEL_CANDIDATES(srv_ai.env_model)[srv_ai.candidate + 1] # ""
    /\ srv_ai' = [srv_ai EXCEPT !.candidate = @ + 1, !.kind = kind]
    /\ srv_pc' = "parse"
    /\ UNCHANGED <<gemini_available, srv_request, srv_entered, local_result, srv_returned,
                   srv_response, exceptServer>>

\* get_gemini_response: every candidate failed
GeminiGivesUp ==
    /\ srv_pc = "gemini"
    /\ gemini_available
    /\ srv_ai.candidate = Len(GEMINI_MODEL_CANDIDATES(srv_ai.env_model))
    /\ srv_ai' = [srv_ai EXCEPT !.failed = "HTTPException 502"]
    /\ Raise("HTTPException 502")
    /\ UNCHANGED <<gemini_available, srv_request, srv_entered, srv_returned, exceptServer>>

\* The rest of ai_analyze: parse the answer and build the result; in ai mode
\* the result is the answer
AiAnalyzeReturns ==
    /\ srv_pc = "parse"
    /\ IF AiAnalyzeRaises(srv_ai.kind) # ""
       THEN /\ srv_ai' = [srv_ai EXCEPT !.failed = AiAnalyzeRaises(srv_ai.kind)]
            /\ Raise(AiAnalyzeRaises(srv_ai.kind))
       ELSE IF srv_request.mode = "ai"
       THEN /\ Respond(200, <<AiResult(srv_ai.kind)>>)
            /\ UNCHANGED <<srv_ai, local_result>>
       ELSE /\ srv_pc' = "merge"
            /\ UNCHANGED <<srv_ai, local_result, srv_response>>
    /\ UNCHANGED <<gemini_available, srv_request, srv_entered, srv_returned, exceptServer>>

\* The merge of hybrid_analyze
HybridMerge ==
    /\ srv_pc = "merge"
    /\ IF MergeRaises(srv_ai.kind) # ""
       THEN /\ srv_ai' = [srv_ai EXCEPT !.failed = MergeRaises(srv_ai.kind)]
            /\ Raise(MergeRaises(srv_ai.kind))
       ELSE LET local == local_result[1]
                ai == AiResult(srv_ai.kind)
            IN  /\ \E missing \in Orderings(Range(local.missing_keywords \o ai.missing_keywords)),
                      found \in Orderings(Range(local.found_keywords \o ai.found_keywords)) :
                       Respond(200, <<Merged(local, ai, missing, found)>>)
                /\ UNCHANGED <<srv_ai, local_result>>
    /\ UNCHANGED <<gemini_available, srv_request, srv_entered, srv_returned, exceptServer>>

Modes == {"ai", "local", "hybrid"}

ServerNext ==
    \/ \E has_key, configures \in BOOLEAN, env_model \in {"", "models/gemini-2.5-flash"} :
           GeminiSetup(has_key, configures, env_model)
    \/ \E upload \in {"file", "bad_type", "too_large", "unreadable", "text", "none"},
          resume \in ResumeTexts, jd \in JobTexts, mode \in Modes :
           AnalyzeResume(upload, resume, jd, mode)
    \/ \E resume \in ResumeTexts, jd \in JobTexts, mode \in Modes : AnalyzeText(resume, jd, mode)
    \/ \E result \in LocalResults : AnalyzeLocally(result)
    \/ GeminiCandidateFails
    \/ \E kind \in ResponseKinds : GeminiCandidateAnswers(kind)
    \/ GeminiGivesUp
    \/ AiAnalyzeReturns
    \/ HybridMerge

---------------------------------------------------------------------------
\* The analysis pipeline of the ML server (main.py, semantic.py, grader.py)

\* extract_ngrams(text, 2, top_k): the bigrams as pairs of words
extract_bigrams(text, top_k) ==
    LET tokens == tokenize(text)
        keep == [t \in Range(tokens) |-> t \notin STOP_WORDS /\ Len(t) > 2]
        filtered == Filter(tokens, keep)
        ngrams == [i \in 1..(IF Len(filtered) > 1 THEN Len(filtered) - 1 ELSE 0) |->
                      <<filtered[i], filtered[i + 1]>>]
    IN  Take(MostCommon(Distinct(ngrams), ngrams), top_k)

\* " ".join(pair)
BigramText(pair) == pair[1] \o " " \o pair[2]

\* bg in resume_lower: the two words stand around one space of a line
BigramInText(pair, text) ==
    \E l \in 1..Len(text) : \E i \in 1..(Len(text[l]) - 1) :
        /\ <<pair[1], text[l][i]>> \in WordEndsWith
        /\ <<pair[2], text[l][i + 1]>> \in WordStartsWith

\* The bigram pass of analyze_resume over exact_found and exact_missing
RECURSIVE BigramOverlap(_, _, _)
BigramOverlap(found_missing, bigrams, text) ==
    IF found_missing = found_missing /\ bigrams = <<>> THEN found_missing
    ELSE LET bg == BigramText(Head(bigrams))
             here == BigramInText(Head(bigrams), text)
             found == found_missing.found
             missing == found_missing.missing
             next == IF here /\ bg \notin Range(found)
                     THEN [found |-> Append(found, bg), missing |-> missing]
                     ELSE IF ~here /\ bg \notin Range(missing)
                     THEN [found |-> found, missing |-> Append(missing, bg)]
                     ELSE found_missing
         IN  BigramOverlap(next, Tail(bigrams), text)

\* The similarity at which a keyword counts as present
SemanticThreshold == 55

\* min(1, max(0, cos)) in hundredths
Clip(cos) == Max(0, Min(100, cos))

\* What an embedding model answers, in hundredths: the cosine of the resume
\* and the job description, of each section and the job description, and of
\* the resume and each keyword
Embeddings == {
    [full |-> 70, section |-> 60, far |-> {"leadership", "sql leadership"}, keyword |-> 60],
    [full |-> 20, section |-> 10, far |-> {"leadership"}, keyword |-> 30],
    [full |-> -10, section |-> 100, far |-> {}, keyword |-> 80]
}
KeywordCos(emb, kw) == IF kw \in emb.far THEN 30 ELSE emb.keyword

\* Whether each function of semantic.py reaches encode_texts
FullSimEncodes(resume, jd) == ~IsBlank(resume) /\ ~IsBlank(jd)
SectionSimsEncodeAnyJob(secs, jd) == DOMAIN secs # {}
SectionSimsEncode(secs, jd) == DOMAIN secs # {} /\ ~IsBlank(jd)
KeywordMatchEncodes(resume, kws) == kws # <<>> /\ ~IsBlank(resume)

\* compute_section_similarities(resume_sections, job_description)
compute_section_similarities(secs, jd, emb) ==
    IF ~SectionSimsEncode(secs, jd) THEN [k \in {} |-> 0]
    ELSE [k \in DOMAIN secs |-> Clip(emb.section)]

\* The weights of compute_jd_match_score, in hundredths
SectionWeight(name) ==
    CASE name = "skills" -> 30
      [] name = "experience" -> 30
      [] name = "summary" -> 15
      [] name = "projects" -> 15
      [] name = "education" -> 10

StandardSections == {"summary", "skills", "experience", "education", "projects"}

\* The blend with the weighted sum left as it is, not divided by the
\* weight of the sections present
JdMatchBlendUnnormalised(full_sim, sims) ==
    LET weighted == StandardSections \cap DOMAIN sims
        total_weight == SumOver(weighted, [s \in weighted |-> SectionWeight(s)])
        weighted_sum == SumOver(weighted, [s \in weighted |-> sims[s] * SectionWeight(s)])
        section_score == IF total_weight > 0 THEN Frac(weighted_sum, 100)
                         ELSE FracInt(full_sim)
    IN  Max(0, Min(100, FracRound(FracMul(Frac(1, 2), FracAdd(FracInt(full_sim), section_score)))))

\* compute_jd_match_score from full_sim and section_sims on: the loop over
\* section_weights, the division by total_weight and the combined score
JdMatchBlend(full_sim, sims) ==
    LET weighted == StandardSections \cap DOMAIN sims
        total_weight == SumOver(weighted, [s \in weighted |-> SectionWeight(s)])
        weighted_sum == SumOver(weighted, [s \in weighted |-> sims[s] * SectionWeight(s)])
        section_score == IF total_weight > 0 THEN Frac(weighted_sum, total_weight)
                         ELSE FracInt(full_sim)
    IN  Max(0, Min(100, FracRound(FracMul(Frac(1, 2), FracAdd(FracInt(full_sim), section_score)))))

\* compute_jd_match_score(resume_text, job_description, resume_sections)
compute_jd_match_score(resume, jd, secs, emb) ==
    LET full_sim == IF FullSimEncodes(resume, jd) THEN Clip(emb.full) ELSE 0
    IN  JdMatchBlend(full_sim, compute_section_similarities(secs, jd, emb))

\* compute_keyword_semantic_matches(resume_text, jd_keywords, 0.55)
compute_keyword_semantic_matches(resume, kws, emb) ==
    IF ~KeywordMatchEncodes(resume, kws) THEN [found |-> <<>>, missing |-> kws]
    ELSE LET near == [k \in Range(kws) |-> KeywordCos(emb, k) >= SemanticThreshold]
         IN  [found |-> Filter(kws, near),
              missing |-> Filter(kws, [k \in Range(kws) |-> ~near[k]])]

\* score_all_sections(sections, jd_text, section_sims): the five standard
\* sections, the text of an absent one "" and its similarity -1.0
score_all_sections(secs, jd, sims, trained, prediction) ==
    [name \in StandardSections |->
        LET text == IF name \in DOMAIN secs THEN secs[name] ELSE <<>>
            sim == IF name \in DOMAIN sims THEN sims[name] ELSE NoSim
            f == extract_section_features(text, jd, name, sim, 0)
        IN  IF TooBrief(text) THEN BriefResult(name)
            ELSE IF trained THEN ScoredResult(prediction, name, f)
            ELSE ScoredResult(rule_based_section_score(f, name), name, f)]

\* GRADE_MAP
GRADE_MAP == <<
    <<95, "A+">>, <<90, "A">>, <<85, "A-">>, <<80, "B+">>, <<75, "B">>, <<70, "B-">>,
    <<65, "C+">>, <<60, "C">>, <<55, "C-">>, <<50, "D+">>, <<45, "D">>, <<0, "F">>
>>

\* The thresholds taken as exclusive lower bounds
LetterGradeAbove(numeric) ==
    IF \E i \in 1..Len(GRADE_MAP) : numeric > GRADE_MAP[i][1]
    THEN GRADE_MAP[CHOOSE i \in 1..Len(GRADE_MAP) :
                       /\ numeric > GRADE_MAP[i][1]
                       /\ \A j \in 1..(i - 1) : numeric <= GRADE_MAP[j][1]][2]
    ELSE "F"

\* The letter of the first threshold that numeric reaches, "F" when none
LetterGrade(numeric) ==
    IF \E i \in 1..Len(GRADE_MAP) : numeric >= GRADE_MAP[i][1]
    THEN GRADE_MAP[CHOOSE i \in 1..Len(GRADE_MAP) :
                       /\ numeric >= GRADE_MAP[i][1]
                       /\ \A j \in 1..(i - 1) : numeric < GRADE_MAP[j][1]][2]
    ELSE "F"

\* The sections compute_grade averages: the standard ones that are keys of
\* section_scores
GradedSections(section_scores) == StandardSections \cap DOMAIN section_scores

\* avg_section_score
AvgSectionScore(section_scores) ==
    LET graded == GradedSections(section_scores)
    IN  Frac(SumOver(graded, [s \in graded |-> section_scores[s].score]),
             Max(Cardinality(graded), 1))

\* compute_grade(...): keyword_density a fraction, the trained model's
\* prediction used when one is loaded
compute_grade(jd_match, ats_score, section_scores, readability, verb_score, quant_score, cliche_count, keyword_density, trained, prediction) ==
    LET with_content == {s \in GradedSections(section_scores) : section_scores[s].score > 20}
        section_completeness == RoundHalfEven(Cardinality(with_content) * 100, 5)
        avg == AvgSectionScore(section_scores)
        weighted == FracAdd(
            Frac(20 * jd_match + 15 * ats_score + 10 * readability + 10 * verb_score
                 + 10 * quant_score + 5 * Max(0, 100 - cliche_count * 8)
                 + 5 * section_completeness, 100),
            FracAdd(FracMul(Frac(20, 100), avg), FracMul(FracInt(5), keyword_density)))
        numeric == Max(0, Min(100, FracRound(IF trained THEN prediction ELSE weighted)))
    IN  [grade |-> LetterGrade(numeric), numeric_score |-> numeric,
         section_completeness |-> section_completeness, avg_section_score |-> avg]

\* AnalyzeRequest (schemas.py): resume_text of 50 characters or more and
\* job_description of 10 or more, counted on the text as sent
AnalyzeRequestValid(resume, jd) ==
    TextLen(resume) >= MinResumeLen /\ TextLen(jd) >= MinJobLen

\* The requests in use
PipeResumes == {
    <<<<"Summary">>, <<"Skills:", "Python,", "SQL">>, <<"Experience">>,
      <<"-", "Built", "APIs">>, <<"-", "Cut", "latency", "by", "50%">>, <<"Education">>>>,
    <<<<"Skills">>, <<"Python,", "SQL", "and", "leadership">>, <<"Experience">>,
      <<"-", "Led", "team", "of", "5">>, <<"-", "improved", "python", "pipeline", "30%">>,
      <<"Education">>, <<"leadership", "and", "python", "require", "sql">>>>,
    <<<<LongWord>>>>,
    Padded(50, <<<<>>>>),
    <<<<"led", "team">>>>
}
PipeJobs == {
    <<<<"We", "require", "Python", "and", "SQL", "and", "leadership">>>>,
    Padded(10, <<<<>>>>),
    <<<<"SQL">>>>,
    <<<<"python", "sql", "kubernetes", "terraform", "ansible", "jenkins", "grafana",
        "prometheus", "kafka">>>>
}

\* What the analyses not modelled here return: compute_ats_score's
\* overall_score, compute_readability and the number of cliches found
OtherAnalyses == {
    [ats_score |-> 40, readability |-> 50, cliche_count |-> 0],
    [ats_score |-> 72, readability |-> 64, cliche_count |-> 2],
    [ats_score |-> 90, readability |-> 88, cliche_count |-> 13]
}

\* What a trained grade model may predict
GradePredictions == {Frac(-7, 1), Frac(169, 2), Frac(120, 1)}

\* The prediction of a model that is not asked
Unasked == FracInt(0)

\* The outcomes of loading one trained regressor and its scaler
LoadOutcomes == {"loaded", "absent", "model_fails", "scaler_fails"}
Regressors == {"ats_model", "section_model", "grade_model"}

\* The globals _X_model and _X_scaler after a load with that outcome
Loaded(outcome) ==
    [model |-> outcome \in {"loaded", "scaler_fails"}, scaler |-> outcome = "loaded"]

\* _X_model is not None and _X_scaler is not None
Trained(r) == pipe_models.regressor[r].model /\ pipe_models.regressor[r].scaler

\* No answer of the embedding model
NoAnswer == [full |-> 0, section |-> 0, far |-> {}, keyword |-> 0]

NoWork ==
    [sections |-> [k \in {} |-> <<>>], found |-> <<>>, missing |-> <<>>, density |-> FracInt(0),
     jd_match |-> 0, sims |-> [k \in {} |-> 0], encoded |-> FALSE, answer |-> NoAnswer]
NoResult ==
    [jd_match |-> 0, ats_score |-> 0, found_keywords |-> <<>>, missing_keywords |-> <<>>,
     section_scores |-> [k \in {} |-> 0], section_completeness |-> 0, overall_grade |-> "",
     analysis_mode |-> ""]
NoGrade ==
    [grade |-> "", numeric_score |-> 0, section_completeness |-> 0,
     avg_section_score |-> FracInt(0)]

PipeIdle ==
    /\ pipe_models = [ready |-> FALSE, sbert |-> FALSE,
                      regressor |-> [r \in Regressors |-> Loaded("absent")],
                      status |-> [k \in {} |-> FALSE]]
    /\ pipe_request = [text |-> <<>>, jd |-> <<>>, entered |-> FALSE]
    /\ pipe_work = NoWork
    /\ pipe_grade = NoGrade
    /\ pipe_response = [status |-> 0, result |-> NoResult]
    /\ pipe_pc = "boot"

\* _load_all_models(): every load is tried, its exception caught and its
\* status noted (a regressor whose files are absent counts as loaded), and the
\* server is ready whatever failed
LoadAllModels(sbert, spacy, outcome) ==
    /\ pipe_pc = "boot"
    /\ pipe_models' =
           [ready |-> TRUE, sbert |-> sbert,
            regressor |-> [r \in Regressors |-> Loaded(outcome[r])],
            status |-> [k \in {"sentence_bert", "spacy"} \cup Regressors |->
                           CASE k = "sentence_bert" -> sbert
                             [] k = "spacy" -> spacy
                             [] OTHER -> outcome[k] \in {"loaded", "absent"}]]
    /\ pipe_pc' = "ready"
    /\ UNCHANGED <<pipe_request, pipe_work, pipe_grade, pipe_response, exceptPipe>>

\* POST /analyze: the request model answers 422 to a short text; a valid
\* request enters the pipeline
MlAnalyze(resume, jd) ==
    /\ pipe_pc = "ready"
    /\ pipe_models.ready
    /\ IF AnalyzeRequestValid(resume, jd)
       THEN /\ pipe_request' = [text |-> resume, jd |-> jd, entered |-> TRUE]
            /\ pipe_pc' = "nlp"
            /\ UNCHANGED pipe_response
       ELSE /\ pipe_request' = [text |-> resume, jd |-> jd, entered |-> FALSE]
            /\ pipe_response' = [status |-> 422, result |-> NoResult]
            /\ pipe_pc' = "responded"
    /\ UNCHANGED <<pipe_models, pipe_work, pipe_grade, exceptPipe>>

\* Step 1: sections, keywords, exact and bigram overlap
PipeNlp ==
    /\ pipe_pc = "nlp"
    /\ LET resume == pipe_request.text
           jd == pipe_request.jd
           exact == compute_keyword_overlap(resume, extract_keywords(jd, 40))
           both == BigramOverlap([found |-> exact.found, missing |-> exact.missing],
                                 extract_bigrams(jd, 20), resume)
       IN  pipe_work' = [pipe_work EXCEPT !.sections = detect_sections(resume),
                                          !.found = both.found, !.missing = both.missing,
                                          !.density = exact.density]
    /\ pipe_pc' = "semantic"
    /\ UNCHANGED <<pipe_models, pipe_request, pipe_grade, pipe_response, exceptPipe>>

\* The merge with the keywords found by meaning left among the missing
MergeKeywordsKeepingMissing(exact_found, exact_missing, sem_found) ==
    [found |-> Take(Distinct(exact_found \o sem_found), 20),
     missing |-> Take(exact_missing, 20)]

\* all_found and all_missing: the exact and the semantic matches merged,
\* the first 20 of each
MergeKeywords(exact_found, exact_missing, sem_found) ==
    LET near == [k \in Range(exact_missing) |-> k \notin Range(sem_found)]
    IN  [found |-> Take(Distinct(exact_found \o sem_found), 20),
         missing |-> Take(Filter(exact_missing, near), 20)]

\* Whether step 2 reaches encode_texts, and with it _get_model()
NeedsEmbedding ==
    \/ FullSimEncodes(pipe_request.text, pipe_request.jd)
    \/ SectionSimsEncode(pipe_work.sections, pipe_request.jd)
    \/ KeywordMatchEncodes(pipe_request.text, pipe_work.missing)

\* _get_model() in a request, after the load at startup failed: it loads now
PipeEmbeddingLoads ==
    /\ pipe_pc = "semantic"
    /\ NeedsEmbedding /\ ~pipe_models.sbert
    /\ pipe_models' = [pipe_models EXCEPT !.sbert = TRUE]
    /\ UNCHANGED <<pipe_request, pipe_work, pipe_grade, pipe_response, pipe_pc, exceptPipe>>

\* _get_model() raises again: nothing in the handler catches it and the
\* request ends in a server error
PipeEmbeddingRaises ==
    /\ pipe_pc = "semantic"
    /\ NeedsEmbedding /\ ~pipe_models.sbert
    /\ pipe_response' = [status |-> 500, result |-> NoResult]
    /\ pipe_pc' = "responded"
    /\ UNCHANGED <<pipe_models, pipe_request, pipe_work, pipe_grade, exceptPipe>>

\* Step 2: the match score, the section similarities, the keywords found by
\* meaning
PipeSemantic(emb) ==
    /\ pipe_pc = "semantic"
    /\ NeedsEmbedding => pipe_models.sbert
    /\ LET resume == pipe_request.text
           jd == pipe_request.jd
           sem == compute_keyword_semantic_matches(resume, pipe_work.missing, emb)
           merged == MergeKeywords(pipe_work.found, pipe_work.missing, sem.found)
       IN  pipe_work' = [pipe_work EXCEPT
               !.jd_match = compute_jd_match_score(resume, jd, pipe_work.sections, emb),
               !.sims = compute_section_similarities(pipe_work.sections, jd, emb),
               !.found = merged.found,
               !.missing = merged.missing,
               !.encoded = NeedsEmbedding,
               !.answer = IF NeedsEmbedding THEN emb ELSE NoAnswer]
    /\ pipe_pc' = "scores"
    /\ UNCHANGED <<pipe_models, pipe_request, pipe_grade, pipe_response, exceptPipe>>

\* Steps 3 to 12 and the response
PipeScore(other, section_prediction, grade_prediction) ==
    /\ pipe_pc = "scores"
    /\ Trained("section_model") <=> section_prediction # Unasked
    /\ Trained("grade_model") <=> grade_prediction # Unasked
    /\ LET resume == pipe_request.text
           section_scores == score_all_sections(pipe_work.sections, pipe_request.jd,
                                 pipe_work.sims, Trained("section_model"), section_prediction)
           grade == compute_grade(pipe_work.jd_match, other.ats_score, section_scores,
                        other.readability, analyze_action_verbs(resume).score,
                        analyze_quantification(resume).score, other.cliche_count,
                        pipe_work.density, Trained("grade_model"), grade_prediction)
       IN  /\ pipe_grade' = grade
           /\ pipe_response' =
                  [status |-> 200,
                   result |-> [jd_match |-> pipe_work.jd_match, ats_score |-> other.ats_score,
                               found_keywords |-> Take(pipe_work.found, 15),
                               missing_keywords |-> Take(pipe_work.missing, 15),
                               section_scores |-> section_scores,
                               section_completeness |-> grade.section_completeness,
                               overall_grade |-> grade.grade, analysis_mode |-> "ml"]]
    /\ pipe_pc' = "responded"
    /\ UNCHANGED <<pipe_models, pipe_request, pipe_work, exceptPipe>>

PipeNext ==
    \/ \E sbert, spacy \in BOOLEAN, outcome \in [Regressors -> LoadOutcomes] :
           LoadAllModels(sbert, spacy, outcome)
    \/ \E resume \in PipeResumes, jd \in PipeJobs : MlAnalyze(resume, jd)
    \/ PipeNlp
    \/ PipeEmbeddingLoads
    \/ PipeEmbeddingRaises
    \/ \E emb \in Embeddings : PipeSemantic(emb)
    \/ \E other \in OtherAnalyses, section_prediction \in Predictions \cup {Unasked},
          grade_prediction \in GradePredictions \cup {Unasked} :
           PipeScore(other, section_prediction, grade_prediction)

---------------------------------------------------------------------------
\* The ATS scorer (ats_scorer.py)
\*
\* What the regular expressions and counters of extract_ats_features find in
\* a resume is a record of measurements: the contact flags, the names of the
\* detected sections, the word, bullet and number counts, the table and image
\* flags.

\* min(count / per, cap)
Scaled(count, per, cap) == FracMin(Frac(count, per), FracInt(cap))

\* The standard-section count taken over every section found
ExtractAtsFeaturesAnySection(m, kw_density) ==
    LET sections_found == m.sections \ {"header"}
    IN  [email |-> Flag(m.has_email),
         phone |-> Flag(m.has_phone),
         linkedin |-> Flag(m.has_linkedin),
         github |-> Flag(m.has_github),
         standard |-> FracInt(Cardinality(sections_found)),
         extra |-> FracInt(Cardinality(sections_found \ StandardSections)),
         kw_density |-> kw_density,
         word_scaled |-> Scaled(m.word_count, 100, 10),
         bullets |-> Scaled(m.bullets, 5, 10),
         quant |-> Scaled(m.numbers_in_exp, 3, 10),
         no_tables |-> Flag(~m.has_tables),
         no_images |-> Flag(~m.has_images_refs)]

\* extract_ats_features(resume_text, job_description, sections): the features
\* by name, kw_density the overlap computed from the job description
extract_ats_features(m, kw_density) ==
    LET sections_found == m.sections \ {"header"}
    IN  [email |-> Flag(m.has_email),
         phone |-> Flag(m.has_phone),
         linkedin |-> Flag(m.has_linkedin),
         github |-> Flag(m.has_github),
         standard |-> FracInt(Cardinality(sections_found \cap StandardSections)),
         extra |-> FracInt(Cardinality(sections_found \ StandardSections)),
         kw_density |-> kw_density,
         word_scaled |-> Scaled(m.word_count, 100, 10),
         bullets |-> Scaled(m.bullets, 5, 10),
         quant |-> Scaled(m.numbers_in_exp, 3, 10),
         no_tables |-> Flag(~m.has_tables),
         no_images |-> Flag(~m.has_images_refs)]

\* The points for the length of the resume
LengthPoints(word_scaled) ==
    IF ~FracLess(word_scaled, FracInt(3)) /\ ~FracLess(FracInt(8), word_scaled) THEN 5
    ELSE IF ~FracLess(word_scaled, FracInt(2)) /\ ~FracLess(FracInt(10), word_scaled) THEN 3
    ELSE 1

\* The points _rule_based_ats_score gives, group by group
AtsGroupPoints(f, keyword_density) ==
    [contact |-> FracAdd(FracAdd(Times(8, f.email), Times(6, f.phone)),
                         FracAdd(Times(4, f.linkedin), Times(2, f.github))),
     standard |-> Times(5, f.standard),
     keywords |-> Times(25, FracMin(keyword_density, FracInt(1))),
     quant |-> Capped(Times(2, f.quant), 10),
     bullets |-> Capped(Times(2, f.bullets), 10),
     clean |-> FracAdd(FracMul(Frac(5, 2), f.no_tables), FracMul(Frac(5, 2), f.no_images)),
     length |-> FracInt(LengthPoints(f.word_scaled))]

\* The score before rounding, added up in the order of the code
RuleBasedAtsTotal(f, keyword_density) ==
    LET p == AtsGroupPoints(f, keyword_density)
    IN  FracAdd(Sum3(p.contact, p.standard, p.keywords),
                FracAdd(Sum3(p.quant, p.bullets, p.clean), p.length))

\* A cap written as a cut-off: more than five bullets' worth scores nothing
RuleBasedAtsCutOff(f, keyword_density) ==
    LET p == AtsGroupPoints(f, keyword_density)
        bullets == IF FracLess(FracInt(10), Times(2, f.bullets)) THEN FracInt(0) ELSE p.bullets
    IN  Max(0, Min(100, FracRound(FracAdd(Sum3(p.contact, p.standard, p.keywords),
                                          FracAdd(Sum3(p.quant, bullets, p.clean), p.length)))))

\* _rule_based_ats_score(features, contact, sections, keyword_density)
rule_based_ats_score(f, keyword_density) ==
    Max(0, Min(100, FracRound(RuleBasedAtsTotal(f, keyword_density))))

\* The resumes measured, the keyword densities passed and what a trained model
\* may predict
AtsContacts == {
    [has_email |-> FALSE, has_phone |-> FALSE, has_linkedin |-> FALSE, has_github |-> FALSE],
    [has_email |-> TRUE, has_phone |-> FALSE, has_linkedin |-> TRUE, has_github |-> FALSE],
    [has_email |-> TRUE, has_phone |-> TRUE, has_linkedin |-> TRUE, has_github |-> TRUE]
}
AtsSectionSets == {
    {"header"},
    {"header", "summary", "skills"},
    {"summary", "skills", "experience", "education", "projects", "certifications"}
}
AtsWordCounts == {0, 150, 250, 300, 800, 900, 1200}
AtsBullets == {0, 3, 60}
AtsNumbers == {0, 2, 40}
AtsDensities == {FracInt(0), Frac(1, 4), Frac(1, 2), FracInt(1)}
AtsPredictions == {Frac(-12, 1), Frac(123, 2), Frac(140, 1)}
AtsMeasurements ==
    {[has_email |-> c.has_email, has_phone |-> c.has_phone, has_linkedin |-> c.has_linkedin,
      has_github |-> c.has_github, sections |-> s, word_count |-> w, bullets |-> b,
      numbers_in_exp |-> n, has_tables |-> t, has_images_refs |-> t /\ w > 0] :
        c \in AtsContacts, s \in AtsSectionSets, w \in AtsWordCounts, b \in AtsBullets,
        n \in AtsNumbers, t \in BOOLEAN}

NoAtsFeatures == extract_ats_features(
    [has_email |-> FALSE, has_phone |-> FALSE, has_linkedin |-> FALSE, has_github |-> FALSE,
     sections |-> {}, word_count |-> 0, bullets |-> 0, numbers_in_exp |-> 0,
     has_tables |-> TRUE, has_images_refs |-> TRUE], FracInt(0))

AtsIdle ==
    /\ ats_model = [model |-> FALSE, scaler |-> FALSE]
    /\ ats_args = [keyword_density |-> FracInt(0)]
    /\ ats_features = NoAtsFeatures
    /\ ats_result = [overall_score |-> 0, by |-> ""]
    /\ ats_pc = "boot"

\* _load_ats_model(): both files present and loaded, or the globals stay None
\* (the scaler's load failing leaves the model set alone)
LoadAtsModel(outcome) ==
    /\ ats_pc = "boot"
    /\ ats_model' = Loaded(outcome)
    /\ ats_pc' = "idle"
    /\ UNCHANGED <<ats_args, ats_features, ats_result, exceptAts>>

\* compute_ats_score(...) down to the features
AtsExtract(m, keyword_density) ==
    /\ ats_pc = "idle"
    /\ ats_args' = [keyword_density |-> keyword_density]
    /\ ats_features' = extract_ats_features(m, keyword_density)
    /\ ats_pc' = "features"
    /\ UNCHANGED <<ats_model, ats_result, exceptAts>>

\* The trained model's prediction, rounded and clamped
AtsPredict(prediction) ==
    /\ ats_pc = "features"
    /\ ats_model.model /\ ats_model.scaler
    /\ ats_result' = [overall_score |-> Max(0, Min(100, FracRound(prediction))), by |-> "model"]
    /\ ats_pc' = "done"
    /\ UNCHANGED <<ats_model, ats_args, ats_features, exceptAts>>

\* No trained model: the rule-based score
AtsRuleBased ==
    /\ ats_pc = "features"
    /\ ~(ats_model.model /\ ats_model.scaler)
    /\ ats_result' = [overall_score |->
                          rule_based_ats_score(ats_features, ats_args.keyword_density),
                      by |-> "rules"]
    /\ ats_pc' = "done"
    /\ UNCHANGED <<ats_model, ats_args, ats_features, exceptAts>>

AtsNext ==
    \/ \E outcome \in {"loaded", "absent", "scaler_fails"} : LoadAtsModel(outcome)
    \/ \E m \in AtsMeasurements, keyword_density \in AtsDensities : AtsExtract(m, keyword_density)
    \/ \E prediction \in AtsPredictions : AtsPredict(prediction)
    \/ AtsRuleBased

---------------------------------------------------------------------------
\* The grader (grader.py)

\* The calls made: every score at one level, few or many cliches
GradeLevels == 0..100
GradeCliches == {0, 13}
GradeArgs(level, cliche_count) ==
    [jd_match |-> level, ats_score |-> level,
     section_scores |-> [s \in StandardSections |-> [score |-> level]],
     readability |-> level, verb_score |-> level, quant_score |-> level,
     cliche_count |-> cliche_count, keyword_density |-> Frac(level, 100)]

\* What a trained grade model may predict: every half point from under 0 to
\* over 100
GradeModelPredictions == {Frac(k, 2) : k \in -6..206}

NoGradeArgs == GradeArgs(0, 0)

GradeIdle ==
    /\ grade_model = [model |-> FALSE, scaler |-> FALSE]
    /\ grade_args = NoGradeArgs
    /\ grade_result = NoGrade
    /\ grade_pc = "boot"

\* _load_grade_model()
LoadGradeModel(outcome) ==
    /\ grade_pc = "boot"
    /\ grade_model' = Loaded(outcome)
    /\ grade_pc' = "idle"
    /\ UNCHANGED <<grade_args, grade_result, exceptGrade>>

\* compute_grade(...) with a trained model and its scaler loaded
GradePredicted(a, prediction) ==
    /\ grade_pc = "idle"
    /\ grade_model.model /\ grade_model.scaler
    /\ grade_args' = a
    /\ grade_result' = compute_grade(a.jd_match, a.ats_score, a.section_scores, a.readability,
                                     a.verb_score, a.quant_score, a.cliche_count,
                                     a.keyword_density, TRUE, prediction)
    /\ grade_pc' = "done"
    /\ UNCHANGED <<grade_model, exceptGrade>>

\* compute_grade(...) by the weighted formula
GradeWeighted(a) ==
    /\ grade_pc = "idle"
    /\ ~(grade_model.model /\ grade_model.scaler)
    /\ grade_args' = a
    /\ grade_result' = compute_grade(a.jd_match, a.ats_score, a.section_scores, a.readability,
                                     a.verb_score, a.quant_score, a.cliche_count,
                                     a.keyword_density, FALSE, Unasked)
    /\ grade_pc' = "done"
    /\ UNCHANGED <<grade_model, exceptGrade>>

GradeNext ==
    \/ \E outcome \in {"loaded", "absent", "scaler_fails"} : LoadGradeModel(outcome)
    \/ \E level \in {0, 50, 100}, prediction \in GradeModelPredictions :
           GradePredicted(GradeArgs(level, 0), prediction)
    \/ \E level \in GradeLevels, cliche_count \in GradeCliches :
           GradeWeighted(GradeArgs(level, cliche_count))

---------------------------------------------------------------------------
\* compute_keyword_overlap called on its own (nlp_engine.py)

\* The keyword lists passed: up to MaxKeywords keywords, repeats and capitals
\* allowed
MaxKeywords == 3
OverlapKeywords == {"python", "Python", "sql", "leadership", "java"}
KeywordLists == UNION {[1..n -> OverlapKeywords] : n \in 0..MaxKeywords}

OverlapIdle ==
    /\ overlap_args = [text |-> <<>>, jd_keywords |-> <<>>]
    /\ overlap_result = [found |-> <<>>, missing |-> <<>>, density |-> FracInt(0)]
    /\ overlap_pc = "idle"

\* compute_keyword_overlap(resume_text, jd_keywords)
OverlapCall(text, jd_keywords) ==
    /\ overlap_pc = "idle"
    /\ overlap_args' = [text |-> text, jd_keywords |-> jd_keywords]
    /\ overlap_result' = compute_keyword_overlap(text, jd_keywords)
    /\ overlap_pc' = "done"
    /\ UNCHANGED exceptOverlap

OverlapNext ==
    \E text \in PipeResumes \cup {<<>>}, jd_keywords \in KeywordLists :
        OverlapCall(text, jd_keywords)

---------------------------------------------------------------------------
\* The cliche detector (cliche_detector.py)

\* CLICHES: the phrases in the order of the dict, each the sequence of its words
CLICHES == <<
    <<"results-driven">>, <<"results-oriented">>, <<"self-motivated">>, <<"self-starter">>,
    <<"hard", "worker">>, <<"hardworking">>, <<"go-getter">>, <<"detail-oriented">>,
    <<"team", "player">>, <<"team-oriented">>, <<"dynamic">>, <<"passionate">>,
    <<"passionate", "about">>, <<"enthusiastic">>, <<"highly", "motivated">>, <<"proactive">>,
    <<"innovative">>, <<"innovative", "thinker">>, <<"strategic", "thinker">>,
    <<"think", "outside", "the", "box">>, <<"thought", "leader">>, <<"responsible", "for">>,
    <<"responsibilities", "included">>, <<"duties", "included">>, <<"worked", "on">>,
    <<"helped", "with">>, <<"assisted", "with">>, <<"involved", "in">>,
    <<"participated", "in">>, <<"was", "tasked", "with">>, <<"dealt", "with">>,
    <<"excellent", "communication", "skills">>, <<"strong", "communication">>,
    <<"excellent", "interpersonal", "skills">>, <<"strong", "work", "ethic">>,
    <<"proven", "track", "record">>, <<"proven", "ability">>, <<"extensive", "experience">>,
    <<"significant", "experience">>, <<"vast", "experience">>, <<"strong", "background">>,
    <<"well-versed">>, <<"proficient", "in">>, <<"expert", "in">>,
    <<"seasoned", "professional">>, <<"go", "above", "and", "beyond">>,
    <<"wear", "many", "hats">>, <<"hit", "the", "ground", "running">>, <<"fast", "learner">>,
    <<"quick", "learner">>, <<"managed", "a", "team">>,
    <<"worked", "with", "cross-functional", "teams">>, <<"synergy">>, <<"leverage">>,
    <<"paradigm", "shift">>, <<"value-add">>, <<"best", "practices">>, <<"best-in-class">>,
    <<"cutting-edge">>, <<"state-of-the-art">>, <<"next-generation">>, <<"world-class">>,
    <<"bottom", "line">>, <<"move", "the", "needle">>, <<"stakeholder", "management">>
>>

\* CLICHE_PATTERNS in list order: the word sequences each pattern accepts, the
\* words apart by any white space (a line break included) and compared in
\* lower case, and the phrase it reports
CLICHE_PATTERNS == <<
    [alts |-> {<<"responsible", "for">>},
     phrase |-> <<"responsible", "for">>],
    [alts |-> {<<"duties", "included">>},
     phrase |-> <<"duties", "included">>],
    [alts |-> {<<"responsibilities", "included">>},
     phrase |-> <<"responsibilities", "included">>],
    [alts |-> {<<"worked", "on">>},
     phrase |-> <<"worked", "on">>],
    [alts |-> {<<"helped", "with">>, <<"helped", "in">>, <<"helped", "to", "with">>, <<"helped", "to", "in">>},
     phrase |-> <<"helped", "with">>],
    [alts |-> {<<"assisted", "with">>, <<"assisted", "in">>},
     phrase |-> <<"assisted", "with">>],
    [alts |-> {<<"involved", "in">>},
     phrase |-> <<"involved", "in">>],
    [alts |-> {<<"participated", "in">>},
     phrase |-> <<"participated", "in">>],
    [alts |-> {<<"proven", "track", "record">>},
     phrase |-> <<"proven", "track", "record">>],
    [alts |-> {<<"think", "outside", "box">>, <<"think", "outside", "the", "box">>, <<"thinking", "outside", "box">>, <<"thinking", "outside", "the", "box">>},
     phrase |-> <<"think", "outside", "the", "box">>],
    [alts |-> {<<"go", "above", "and", "beyond">>, <<"goes", "above", "and", "beyond">>, <<"going", "above", "and", "beyond">>},
     phrase |-> <<"go", "above", "and", "beyond">>],
    [alts |-> {<<"wear", "many", "hats">>, <<"wears", "many", "hats">>, <<"wearing", "many", "hats">>},
     phrase |-> <<"wear", "many", "hats">>],
    [alts |-> {<<"hit", "the", "ground", "running">>, <<"hitting", "the", "ground", "running">>},
     phrase |-> <<"hit", "the", "ground", "running">>],
    [alts |-> {<<"move", "the", "needle">>, <<"moved", "the", "needle">>, <<"moves", "the", "needle">>, <<"moveing", "the", "needle">>},
     phrase |-> <<"move", "the", "needle">>],
    [alts |-> {<<"passionate", "about">>},
     phrase |-> <<"passionate", "about">>],
    [alts |-> {<<"extensive", "experience">>},
     phrase |-> <<"extensive", "experience">>]
>>

\* The words of a line or a text in lower case
LowerLine(line) == [i \in 1..Len(line) |-> Lower(line[i])]

\* The word sequence ws stands in the word sequence s, word after word
OccursIn(ws, s) ==
    \E i \in 1..(Len(s) - Len(ws) + 1) : SubSeq(s, i, i + Len(ws) - 1) = ws

\* pattern.search(resume_text) for an entry of CLICHE_PATTERNS: \s+ runs over
\* line breaks and blank lines as over spaces
PatternFinds(p, text) == \E a \in p.alts : OccursIn(a, LowerLine(Words(text)))

\* The test of the dictionary pass: the phrase between word boundaries for a
\* phrase of one or two words, as a substring of the lowercased text for a
\* longer one; either way its words a single space apart, so on one line
DictionaryFinds(phrase, text) ==
    \E i \in 1..Len(text) : OccursIn(phrase, LowerLine(text[i]))

\* The first loop: over CLICHE_PATTERNS, from the n-th on
RECURSIVE PatternPass(_, _, _)
PatternPass(found, n, text) ==
    IF n > Len(CLICHE_PATTERNS) THEN found
    ELSE LET p == CLICHE_PATTERNS[n]
             seen == {found[i].phrase : i \in 1..Len(found)}
         IN  IF PatternFinds(p, text) /\ p.phrase \notin seen
             THEN PatternPass(Append(found, [phrase |-> p.phrase, by |-> "pattern"]), n + 1, text)
             ELSE PatternPass(found, n + 1, text)

\* The second loop without its test of seen
RECURSIVE DictionaryPassForgetful(_, _, _)
DictionaryPassForgetful(found, n, text) ==
    IF n > Len(CLICHES) THEN found
    ELSE IF DictionaryFinds(CLICHES[n], text)
         THEN DictionaryPassForgetful(
                  Append(found, [phrase |-> CLICHES[n], by |-> "dictionary"]), n + 1, text)
         ELSE DictionaryPassForgetful(found, n + 1, text)

\* The second loop: over CLICHES, from the n-th on
RECURSIVE DictionaryPass(_, _, _)
DictionaryPass(found, n, text) ==
    IF n > Len(CLICHES) THEN found
    ELSE LET seen == {found[i].phrase : i \in 1..Len(found)}
         IN  IF CLICHES[n] \notin seen /\ DictionaryFinds(CLICHES[n], text)
             THEN DictionaryPass(
                      Append(found, [phrase |-> CLICHES[n], by |-> "dictionary"]), n + 1, text)
             ELSE DictionaryPass(found, n + 1, text)

\* detect_cliches with the forgetful second loop
DetectClichesForgettingSeen(text) ==
    DictionaryPassForgetful(PatternPass(<<>>, 1, text), 1, text)

\* detect_cliches(resume_text): the phrases found, each with the loop that
\* found it
detect_cliches(text) == DictionaryPass(PatternPass(<<>>, 1, text), 1, text)

\* The lines the texts of the detector's runs are made of, and the longest
\* text
ClicheLines == {
    <<"Responsible", "for", "testing">>,
    <<"RESPONSIBLE">>,
    <<"For", "results-driven", "work">>,
    <<"Results-Driven", "and", "responsible", "for", "QA">>,
    <<"passionate", "about", "code">>,
    <<"team">>,
    <<"player">>,
    <<>>,
    <<"helped", "to", "with", "proven", "track", "record">>
}
MaxClicheLines == 3

ClicheIdle ==
    /\ cliche_text = <<>>
    /\ cliche_found = <<>>
    /\ cliche_pc = "read"

\* One more line of the resume text
ClicheLine(line) ==
    /\ cliche_pc = "read"
    /\ Len(cliche_text) < MaxClicheLines
    /\ cliche_text' = Append(cliche_text, line)
    /\ UNCHANGED <<cliche_found, cliche_pc, exceptCliche>>

\* detect_cliches(resume_text) on the text read
ClicheDetect ==
    /\ cliche_pc = "read"
    /\ cliche_found' = detect_cliches(cliche_text)
    /\ cliche_pc' = "done"
    /\ UNCHANGED <<cliche_text, exceptCliche>>

ClicheNext ==
    \/ \E line \in ClicheLines : ClicheLine(line)
    \/ ClicheDetect

---------------------------------------------------------------------------
\* The scores of an analysis result: AnalysisResult as analyze_resume fills it
\* with no trained regressor loaded (main.py), and the dict analyze_locally
\* returns (backend/analyzer.py)

FracNeg(a) == [n |-> 0 - a.n, d |-> a.d]
FracSub(a, b) == FracAdd(a, FracNeg(b))
FracAbs(a) == IF a.n < 0 THEN FracNeg(a) ELSE a

\* int(x) of a float that is not negative
FracInt0(a) == a.n \div a.d

\* round(x, 3)
Round3(a) == Frac(FracRound(FracMul(a, FracInt(1000))), 1000)

\* The arithmetic of compute_readability of nlp_engine.py on a text of that
\* many words, that many sentences (one at least) and that many long words;
\* long_pct is 0 without words
ReadabilityFormula(words, sentences, long_words) ==
    LET avg_sentence_len == Frac(words, sentences)
        long_pct == IF words = 0 THEN FracInt(0) ELSE Frac(long_words, words)
        sentence_score == FracMax(FracInt(0),
            FracSub(FracInt(100),
                    FracMul(FracAbs(FracSub(avg_sentence_len, FracInt(16))), FracInt(4))))
        word_score == FracMax(FracInt(0),
            FracSub(FracInt(100), FracMul(long_pct, FracInt(200))))
        length_score == FracMin(FracInt(100), Frac(words, 3))
    IN  Min(100, FracRound(FracAdd(FracMul(sentence_score, Frac(4, 10)),
                           FracAdd(FracMul(word_score, Frac(3, 10)),
                                   FracMul(length_score, Frac(3, 10))))))

\* compute_readability(text) of nlp_engine.py on a text of that many words,
\* that many sentences of more than 5 characters and that many words of more
\* than 8 letters; 50.0 without sentences or words
compute_readability(words, sentences, long_words) ==
    IF sentences = 0 \/ words = 0 THEN 50
    ELSE ReadabilityFormula(words, sentences, long_words)

\* compute_readability(text) of backend/analyzer.py, the long words those of
\* more than 6 letters
local_compute_readability(words, sentences, long_words) ==
    IF sentences = 0 \/ words = 0 THEN 50
    ELSE LET avg_sentence_len == Frac(words, sentences)
             long_word_pct == Frac(long_words, words)
             sentence_score == FracMax(FracInt(0),
                 FracSub(FracInt(100),
                         FracMul(FracAbs(FracSub(avg_sentence_len, FracInt(17))), FracInt(3))))
             word_score == FracMax(FracInt(0),
                 FracSub(FracInt(100), FracMul(long_word_pct, FracInt(200))))
         IN  Min(100, FracInt0(FracMul(FracAdd(sentence_score, word_score), Frac(1, 2))))

\* score_section of backend/analyzer.py: 20 for a missing or brief section,
\* else the similarity and the density weighed, between 10 and 100
local_score_section(brief, similarity, density) ==
    IF brief THEN 20
    ELSE Max(10, FracInt0(FracMin(FracInt(100),
                 FracMul(FracAdd(FracMul(similarity, FracInt(60)),
                                 FracMul(density, FracInt(40))), FracInt(100)))))

\* The match percentage of analyze_locally
LocalJdMatch(similarity, keyword_density) ==
    Max(5, FracInt0(FracMin(FracInt(100),
               FracMul(FracAdd(FracMul(similarity, FracInt(50)),
                               FracMul(keyword_density, FracInt(50))), FracInt(100)))))

\* The ATS score of analyze_locally
LocalAtsScore(jd_match, has_email, has_phone, has_linkedin, section_count, keyword_density) ==
    LET contact_score == (IF has_email THEN 10 ELSE 0) + (IF has_phone THEN 10 ELSE 0)
                           + (IF has_linkedin THEN 5 ELSE 0)
        section_score == Min(30, section_count * 6)
    IN  FracInt0(FracMin(FracInt(100),
            FracAdd(FracAdd(FracMul(FracInt(jd_match), Frac(4, 10)),
                            FracInt(contact_score + section_score)),
                    FracMul(keyword_density, FracInt(20)))))

\* The texts of up to MaxResultLines lines over a set of lines
MaxResultLines == 3
ResultTexts(among) == UNION {[1..n -> among] : n \in 0..MaxResultLines}

\* What the texts measured are made of: words, sentences and long words
ReadWordCounts == {0, 1, 5, 16, 17, 40, 48, 160, 300, 600}
ReadSentenceCounts == {0, 1, 2, 3, 10, 40}
ReadMeasures ==
    {[words |-> w, sentences |-> s, long_words |-> l] :
        w \in ReadWordCounts, s \in ReadSentenceCounts, l \in ReadWordCounts}

\* Similarities and densities, in twentieths
Twentieths == {Frac(k, 20) : k \in 0..20}

\* The section counts of analyze_locally
LocalSectionCounts == 0..8

NoDensity == FracInt(0)
NoResultRequest == [text |-> <<>>, jd |-> <<>>, sections |-> [k \in {} |-> <<>>]]

ResultIdle ==
    /\ result_mode = ""
    /\ result_scores = {}
    /\ result_density = NoDensity
    /\ result_request = NoResultRequest
    /\ result_pc = "idle"

\* A step of one of the two analyses has filled these fields of the result
Filled(mode, scores, density) ==
    /\ result_mode' = mode
    /\ result_scores' = scores
    /\ result_density' = density
    /\ result_pc' = "done"
    /\ UNCHANGED exceptResult

\* analyze_resume is entered with a request that validation accepts, and
\* step 1 segments the resume
ResultRequest(resume, jd) ==
    /\ result_pc = "idle"
    /\ AnalyzeRequestValid(resume, jd)
    /\ result_request' = [text |-> resume, jd |-> jd, sections |-> detect_sections(resume)]
    /\ result_pc' = "request"
    /\ UNCHANGED <<result_mode, result_scores, result_density, exceptResult>>

\* Steps 1, 2, 4 and 9 of analyze_resume on that request: keyword_density,
\* jd_match, the section scores and section_completeness
ResultMatch(emb, other) ==
    /\ result_pc = "request"
    /\ LET resume == result_request.text
           jd == result_request.jd
           secs == result_request.sections
           exact == compute_keyword_overlap(resume, extract_keywords(jd, 40))
           jd_match == compute_jd_match_score(resume, jd, secs, emb)
           section_sims == compute_section_similarities(secs, jd, emb)
           section_scores == score_all_sections(secs, jd, section_sims, FALSE, Unasked)
           grade == compute_grade(jd_match, other.ats_score, section_scores,
                        other.readability, analyze_action_verbs(resume).score,
                        analyze_quantification(resume).score, other.cliche_count,
                        exact.density, FALSE, Unasked)
       IN  Filled("ml",
                  {<<"jd_match", jd_match>>,
                   <<"section_completeness", grade.section_completeness>>}
                    \cup {<<name, section_scores[name].score>> : name \in StandardSections},
                  Round3(exact.density))
    /\ UNCHANGED result_request

\* Step 1 alone, for more keyword lists
ResultDensity(text, jd_keywords) ==
    /\ result_pc = "idle"
    /\ Filled("ml", {}, Round3(compute_keyword_overlap(text, jd_keywords).density))
    /\ UNCHANGED result_request

\* Step 3: ats_score by the rules
ResultAts(m, keyword_density) ==
    /\ result_pc = "idle"
    /\ Filled("ml", {<<"ats_score", rule_based_ats_score(extract_ats_features(m, keyword_density),
                                                      keyword_density)>>}, NoDensity)
    /\ UNCHANGED result_request

\* Step 4 on one section
ResultSection(text, jd, name, sim, cos) ==
    /\ result_pc = "idle"
    /\ Filled("ml", {<<name, score_section(text, jd, name, sim, cos).score>>}, NoDensity)
    /\ UNCHANGED result_request

\* Step 1: readability_score
ResultReadability(r) ==
    /\ result_pc = "idle"
    /\ r.long_words <= r.words
    /\ Filled("ml", {<<"readability_score",
                       compute_readability(r.words, r.sentences, r.long_words)>>}, NoDensity)
    /\ UNCHANGED result_request

\* Step 6: the action-verb score
ResultVerbs(text) ==
    /\ result_pc = "idle"
    /\ Filled("ml", {<<"action_verb_score", analyze_action_verbs(text).score>>}, NoDensity)
    /\ UNCHANGED result_request

\* Step 7: the quantification score
ResultQuant(text) ==
    /\ result_pc = "idle"
    /\ Filled("ml", {<<"quantification_score", analyze_quantification(text).score>>}, NoDensity)
    /\ UNCHANGED result_request

\* analyze_locally: jd_match, ats_score and keyword_density
LocalMatch(similarity, keyword_density, has_email, has_phone, has_linkedin, section_count) ==
    /\ result_pc = "idle"
    /\ LET jd_match == LocalJdMatch(similarity, keyword_density)
       IN  Filled("local",
               {<<"jd_match", jd_match>>,
                <<"ats_score", LocalAtsScore(jd_match, has_email, has_phone, has_linkedin,
                                             section_count, keyword_density)>>},
               Round3(keyword_density))
    /\ UNCHANGED result_request

\* analyze_locally: one entry of section_scores
LocalSection(name, brief, similarity, density) ==
    /\ result_pc = "idle"
    /\ Filled("local", {<<name, local_score_section(brief, similarity, density)>>}, NoDensity)
    /\ UNCHANGED result_request

\* analyze_locally: readability_score
LocalReadability(r) ==
    /\ result_pc = "idle"
    /\ r.long_words <= r.words
    /\ Filled("local", {<<"readability_score",
                          local_compute_readability(r.words, r.sentences, r.long_words)>>},
              NoDensity)
    /\ UNCHANGED result_request

ResultNext ==
    \/ \E resume \in PipeResumes, jd \in PipeJobs : ResultRequest(resume, jd)
    \/ \E emb \in Embeddings, other \in OtherAnalyses : ResultMatch(emb, other)
    \/ \E text \in PipeResumes, jd_keywords \in KeywordLists : ResultDensity(text, jd_keywords)
    \/ \E m \in AtsMeasurements, keyword_density \in AtsDensities : ResultAts(m, keyword_density)
    \/ \E text \in ScoreTexts, jd \in ScoreJobs, name \in SectionNames, sim \in SimValues,
          cos \in CosValues :
           ResultSection(text, jd, name, sim, cos)
    \/ \E r \in ReadMeasures : ResultReadability(r)
    \/ \E text \in ResultTexts(VerbLines) : ResultVerbs(text)
    \/ \E text \in ResultTexts(QuantLines) : ResultQuant(text)
    \/ \E similarity, keyword_density \in Twentieths, has_email, has_phone, has_linkedin \in BOOLEAN,
          section_count \in LocalSectionCounts :
           LocalMatch(similarity, keyword_density, has_email, has_phone, has_linkedin, section_count)
    \/ \E name \in StandardSections, brief \in BOOLEAN, similarity, density \in Twentieths :
           LocalSection(name, brief, similarity, density)
    \/ \E r \in ReadMeasures : LocalReadability(r)

---------------------------------------------------------------------------
\* The three functions of semantic.py called on their own, and their calls of
\* encode_texts

\* The texts, section maps and keyword lists passed
SemTexts == {
    <<>>,
    <<<<>>>>,
    <<<<>>, <<>>, <<>>>>,
    <<<<"led", "team">>>>,
    <<<<>>, <<"Python,", "SQL", "and", "leadership">>, <<>>>>
}
SemSectionMaps ==
    {[k \in names |-> IF k = "skills" THEN <<<<"Python,", "SQL">>>> ELSE <<>>] :
        names \in {{}, {"header"}, {"skills"}, {"summary", "skills"}}}

NoSemArgs == [fn |-> "", text_a |-> <<>>, text_b |-> <<>>,
              sections |-> [k \in {} |-> <<>>], jd_keywords |-> <<>>]

SemIdle ==
    /\ sem_args = NoSemArgs
    /\ sem_encodes = 0
    /\ sem_result = <<>>
    /\ sem_pc = "idle"

\* compute_semantic_similarity(text_a, text_b) is entered
SemSimilarityCall(text_a, text_b) ==
    /\ sem_pc = "idle"
    /\ sem_args' = [NoSemArgs EXCEPT !.fn = "compute_semantic_similarity",
                                     !.text_a = text_a, !.text_b = text_b]
    /\ sem_pc' = "entered"
    /\ UNCHANGED <<sem_encodes, sem_result, exceptSem>>

\* compute_section_similarities(resume_sections, job_description) is entered
SemSectionsCall(secs, job_description) ==
    /\ sem_pc = "idle"
    /\ sem_args' = [NoSemArgs EXCEPT !.fn = "compute_section_similarities",
                                     !.sections = secs, !.text_b = job_description]
    /\ sem_pc' = "entered"
    /\ UNCHANGED <<sem_encodes, sem_result, exceptSem>>

\* compute_keyword_semantic_matches(resume_text, jd_keywords) is entered
SemKeywordsCall(resume_text, jd_keywords) ==
    /\ sem_pc = "idle"
    /\ sem_args' = [NoSemArgs EXCEPT !.fn = "compute_keyword_semantic_matches",
                                     !.text_a = resume_text, !.jd_keywords = jd_keywords]
    /\ sem_pc' = "entered"
    /\ UNCHANGED <<sem_encodes, sem_result, exceptSem>>

\* Whether the function entered goes on to encode_texts
SemEncodes ==
    CASE sem_args.fn = "compute_semantic_similarity" ->
             FullSimEncodes(sem_args.text_a, sem_args.text_b)
      [] sem_args.fn = "compute_section_similarities" ->
             SectionSimsEncode(sem_args.sections, sem_args.text_b)
      [] OTHER -> KeywordMatchEncodes(sem_args.text_a, sem_args.jd_keywords)

\* What the function entered returns when the embedding model answers emb
SemReturned(emb) ==
    CASE sem_args.fn = "compute_semantic_similarity" ->
             compute_semantic_similarity(sem_args.text_a, sem_args.text_b, emb.full)
      [] sem_args.fn = "compute_section_similarities" ->
             compute_section_similarities(sem_args.sections, sem_args.text_b, emb)
      [] OTHER -> compute_keyword_semantic_matches(sem_args.text_a, sem_args.jd_keywords, emb)

\* The early return, before encode_texts
SemReturnEarly ==
    /\ sem_pc = "entered"
    /\ ~SemEncodes
    /\ sem_result' = SemReturned([full |-> 0, section |-> 0, far |-> {}, keyword |-> 0])
    /\ sem_pc' = "done"
    /\ UNCHANGED <<sem_args, sem_encodes, exceptSem>>

\* The one call of encode_texts and the return
SemEncode(emb) ==
    /\ sem_pc = "entered"
    /\ SemEncodes
    /\ sem_encodes' = sem_encodes + 1
    /\ sem_result' = SemReturned(emb)
    /\ sem_pc' = "done"
    /\ UNCHANGED <<sem_args, exceptSem>>

SemNext ==
    \/ \E text_a, text_b \in SemTexts : SemSimilarityCall(text_a, text_b)
    \/ \E secs \in SemSectionMaps, job_description \in SemTexts :
           SemSectionsCall(secs, job_description)
    \/ \E resume_text \in SemTexts, jd_keywords \in KeywordLists :
           SemKeywordsCall(resume_text, jd_keywords)
    \/ SemReturnEarly
    \/ \E emb \in Embeddings : SemEncode(emb)

---------------------------------------------------------------------------
\* compute_recommended_roles (grader.py)

\* ROLE_KEYWORDS, in declaration order
ROLE_KEYWORDS == <<
    [role |-> "Frontend Developer",
     keywords |-> <<"react", "angular", "vue", "javascript", "typescript", "css", "html",
                      "frontend", "ui">>],
    [role |-> "Backend Developer",
     keywords |-> <<"node", "express", "django", "flask", "spring", "api", "backend",
                      "server", "microservice">>],
    [role |-> "Full Stack Developer",
     keywords |-> <<"full stack", "fullstack", "frontend", "backend", "react", "node">>],
    [role |-> "Python Developer",
     keywords |-> <<"python", "django", "flask", "fastapi", "pandas", "numpy">>],
    [role |-> "Java Developer",
     keywords |-> <<"java", "spring", "hibernate", "maven", "gradle", "jvm">>],
    [role |-> "React Developer",
     keywords |-> <<"react", "redux", "next.js", "nextjs", "jsx", "react native">>],
    [role |-> "Node.js Developer",
     keywords |-> <<"node.js", "nodejs", "express", "npm", "typescript">>],
    [role |-> "Data Scientist",
     keywords |-> <<"data science", "machine learning", "pandas", "numpy", "matplotlib",
                      "jupyter", "statistics">>],
    [role |-> "ML Engineer",
     keywords |-> <<"machine learning", "deep learning", "tensorflow", "pytorch", "nlp",
                      "computer vision", "ml ops">>],
    [role |-> "Data Engineer",
     keywords |-> <<"data pipeline", "etl", "spark", "hadoop", "airflow", "data warehouse",
                      "sql">>],
    [role |-> "Data Analyst",
     keywords |-> <<"data analysis", "excel", "tableau", "power bi", "sql", "visualization",
                      "analytics">>],
    [role |-> "DevOps Engineer",
     keywords |-> <<"devops", "ci/cd", "docker", "kubernetes", "terraform", "ansible",
                      "jenkins", "aws">>],
    [role |-> "Cloud Engineer",
     keywords |-> <<"aws", "azure", "gcp", "cloud", "serverless", "lambda", "ec2", "s3">>],
    [role |-> "Site Reliability Engineer",
     keywords |-> <<"sre", "reliability", "monitoring", "kubernetes", "incident", "on-call">>],
    [role |-> "iOS Developer",
     keywords |-> <<"ios", "swift", "objective-c", "xcode", "swiftui", "cocoa">>],
    [role |-> "Android Developer",
     keywords |-> <<"android", "kotlin", "java", "android studio", "gradle">>],
    [role |-> "Mobile Developer",
     keywords |-> <<"mobile", "react native", "flutter", "ionic", "xamarin">>],
    [role |-> "UI/UX Designer",
     keywords |-> <<"ui", "ux", "figma", "sketch", "design", "wireframe", "prototype",
                      "user research">>],
    [role |-> "Product Manager",
     keywords |-> <<"product management", "roadmap", "stakeholder", "agile", "user stories",
                      "prd">>],
    [role |-> "Project Manager",
     keywords |-> <<"project management", "pmp", "scrum master", "agile", "gantt", "jira">>],
    [role |-> "QA Engineer",
     keywords |-> <<"testing", "qa", "test automation", "selenium", "cypress", "jest",
                      "quality assurance">>],
    [role |-> "Security Engineer",
     keywords |-> <<"security", "penetration testing", "vulnerability", "soc", "siem",
                      "cybersecurity">>],
    [role |-> "Database Administrator",
     keywords |-> <<"database", "dba", "postgresql", "mysql", "oracle", "mongodb",
                      "sql server">>],
    [role |-> "Systems Administrator",
     keywords |-> <<"system admin", "linux", "windows server", "active directory", "vmware">>],
    [role |-> "Technical Writer",
     keywords |-> <<"technical writing", "documentation", "api docs", "user guide">>],
    [role |-> "Solutions Architect",
     keywords |-> <<"architecture", "solutions architect", "system design", "enterprise",
                      "cloud architect">>],
    [role |-> "Blockchain Developer",
     keywords |-> <<"blockchain", "solidity", "ethereum", "smart contract", "web3", "defi">>],
    [role |-> "AI Engineer",
     keywords |-> <<"artificial intelligence", "llm", "gpt", "transformer", "nlp",
                      "computer vision">>],
    [role |-> "Embedded Systems Engineer",
     keywords |-> <<"embedded", "firmware", "rtos", "c/c++", "microcontroller", "iot">>]
>>

\* The lines the resume texts are made of
RoleLines == {
    <<"React", "and", "Node", "developer">>,
    <<"Python,", "Django", "and", "Flask">>,
    <<"JavaScript,", "TypeScript,", "CSS", "and", "HTML">>,
    <<"AWS,", "Docker,", "Kubernetes,", "Terraform">>,
    <<"SQL,", "Tableau", "and", "Excel">>,
    <<"Wrote", "guides">>,
    <<"Java,", "Spring", "and", "Gradle">>,
    <<"Led", "team", "of", "five">>,
    <<>>,
    <<"Machine", "Learning,", "NLP,", "pandas,", "numpy">>
}

\* kw in line.lower() for those lines: the keywords of the taxonomy that are
\* substrings of the line in lower case
KeywordsInLine(line) ==
    CASE line = <<"React", "and", "Node", "developer">> ->
             {"node", "react"}
      [] line = <<"Python,", "Django", "and", "Flask">> ->
             {"django", "flask", "python"}
      [] line = <<"JavaScript,", "TypeScript,", "CSS", "and", "HTML">> ->
             {"css", "html", "java", "javascript", "typescript"}
      [] line = <<"AWS,", "Docker,", "Kubernetes,", "Terraform">> ->
             {"aws", "docker", "kubernetes", "terraform"}
      [] line = <<"SQL,", "Tableau", "and", "Excel">> ->
             {"excel", "sql", "tableau"}
      [] line = <<"Wrote", "guides">> ->
             {"ui"}
      [] line = <<"Java,", "Spring", "and", "Gradle">> ->
             {"gradle", "java", "spring"}
      [] line = <<"Led", "team", "of", "five">> ->
             {}
      [] line = <<"Machine", "Learning,", "NLP,", "pandas,", "numpy">> ->
             {"machine learning", "nlp", "numpy", "pandas"}
      [] OTHER -> {}

\* text_lower holds the keyword
InResume(kw, text) == \E i \in 1..Len(text) : kw \in KeywordsInLine(text[i])

\* matches: the keywords of the n-th role that text_lower holds
RoleMatches(n, text) ==
    LET keywords == ROLE_KEYWORDS[n].keywords
    IN  Cardinality({k \in 1..Len(keywords) : InResume(keywords[k], text)})

\* sorted(role_scores.items(), key=lambda x: -x[1]) over the roles numbered in
\* among: the highest count first, equal counts in the order of declaration
RECURSIVE SortedRoles(_, _)
SortedRoles(among, text) ==
    IF among = {} THEN <<>>
    ELSE LET first == CHOOSE n \in among : \A m \in among :
                          \/ RoleMatches(m, text) < RoleMatches(n, text)
                          \/ RoleMatches(m, text) = RoleMatches(n, text) /\ n <= m
         IN  <<first>> \o SortedRoles(among \ {first}, text)

\* The roles returned when a role qualifies with threshold matches
RolesAtThreshold(text, threshold) ==
    LET role_scores == {n \in 1..Len(ROLE_KEYWORDS) : RoleMatches(n, text) >= threshold}
        sorted_roles == Take(SortedRoles(role_scores, text), 5)
        roles == [i \in 1..Len(sorted_roles) |-> ROLE_KEYWORDS[sorted_roles[i]].role]
    IN  IF roles = <<>> THEN <<"Software Developer", "IT Professional">> ELSE roles

\* A single keyword taken as enough for a role
RecommendedRolesOnOneMatch(text) == RolesAtThreshold(text, 1)

\* compute_recommended_roles(resume_text)
compute_recommended_roles(text) == RolesAtThreshold(text, 2)

\* The longest resume text
MaxRoleLines == 3

RoleIdle ==
    /\ role_text = <<>>
    /\ role_result = <<>>
    /\ role_pc = "read"

\* One more line of the resume text
RoleLine(line) ==
    /\ role_pc = "read"
    /\ Len(role_text) < MaxRoleLines
    /\ role_text' = Append(role_text, line)
    /\ UNCHANGED <<role_result, role_pc, exceptRole>>

\* compute_recommended_roles(resume_text) on the text read
RoleReturn ==
    /\ role_pc = "read"
    /\ role_result' = compute_recommended_roles(role_text)
    /\ role_pc' = "done"
    /\ UNCHANGED <<role_text, exceptRole>>

RoleNext ==
    \/ \E line \in RoleLines : RoleLine(line)
    \/ RoleReturn

---------------------------------------------------------------------------
\* extract_keywords called on its own (nlp_engine.py)

\* The lines the texts are made of and the longest text
KeywordLines == {
    <<"Python,", "SQL", "and", "Go">>,
    <<"sql", "python", "sql">>,
    <<"We", "require", "leadership">>,
    <<"Go", "go", "of", "APIs">>,
    <<>>,
    <<"leadership", "python">>,
    <<"5", "apis", "SQL", "apis">>
}
MaxKeywordLines == 3

\* The values of top_n
TopNs == 0..5

KwIdle ==
    /\ kw_text = <<>>
    /\ kw_top_n = 0
    /\ kw_result = <<>>
    /\ kw_pc = "read"

\* One more line of the text
KwLine(line) ==
    /\ kw_pc = "read"
    /\ Len(kw_text) < MaxKeywordLines
    /\ kw_text' = Append(kw_text, line)
    /\ UNCHANGED <<kw_top_n, kw_result, kw_pc, exceptKw>>

\* extract_keywords(text, top_n) on the text read
KwReturn(top_n) ==
    /\ kw_pc = "read"
    /\ kw_top_n' = top_n
    /\ kw_result' = extract_keywords(kw_text, top_n)
    /\ kw_pc' = "done"
    /\ UNCHANGED <<kw_text, exceptKw>>

KwNext ==
    \/ \E line \in KeywordLines : KwLine(line)
    \/ \E top_n \in TopNs : KwReturn(top_n)

---------------------------------------------------------------------------
\* compute_readability called on its own (nlp_engine.py, backend/analyzer.py)

\* not sentences or not words, with either the test of the words forgotten
NeutralDefaultOnSentencesOnly(words, sentences) == sentences = 0
NeutralDefault(words, sentences) == sentences = 0 \/ words = 0

\* What the function of module fn does after that test: it divides by the
\* number of sentences, and in analyzer.py by the number of words as well
ReadabilityOutcome(fn, words, sentences, long_words) ==
    IF NeutralDefault(words, sentences) THEN [status |-> "returned", value |-> 50]
    ELSE IF sentences = 0 \/ (fn = "analyzer" /\ words = 0)
    THEN [status |-> "ZeroDivisionError", value |-> 0]
    ELSE [status |-> "returned",
          value |-> IF fn = "analyzer"
                    THEN local_compute_readability(words, sentences, long_words)
                    ELSE ReadabilityFormula(words, sentences, long_words)]

ReadIdle ==
    /\ read_call = [fn |-> "", words |-> 0, sentences |-> 0, long_words |-> 0]
    /\ read_outcome = [status |-> "", value |-> 0]
    /\ read_pc = "idle"

\* compute_readability(text) of module fn on a text of that measure
ReadCall(fn, r) ==
    /\ read_pc = "idle"
    /\ r.long_words <= r.words
    /\ read_call' = [fn |-> fn, words |-> r.words, sentences |-> r.sentences,
                     long_words |-> r.long_words]
    /\ read_pc' = "entered"
    /\ UNCHANGED <<read_outcome, exceptRead>>

\* The function returns or raises
ReadEnd ==
    /\ read_pc = "entered"
    /\ read_outcome' = ReadabilityOutcome(read_call.fn, read_call.words, read_call.sentences,
                                          read_call.long_words)
    /\ read_pc' = "done"
    /\ UNCHANGED <<read_call, exceptRead>>

ReadNext ==
    \/ \E fn \in {"nlp_engine", "analyzer"}, r \in ReadMeasures : ReadCall(fn, r)
    \/ ReadEnd

---------------------------------------------------------------------------
\* _rule_based_section_score on any feature vector (section_scorer.py)

\* The values a feature takes: the three in [0, 1] and the four that
\* extract_section_features caps at 10 or at 5
UnitValues == {FracInt(0), Frac(3, 10), FracInt(1)}
WordScaledValues == {FracInt(0), Frac(3, 1), FracInt(10)}
DensityValues == {FracInt(0), Frac(4, 3), FracInt(5)}
DensityLimits == {FracInt(0), FracInt(5)}
RuleSectionNames == {"summary", "skills", "experience", "education", "projects",
                     "certifications"}
NoFeatures ==
    [semantic_sim |-> FracInt(0), kw_density |-> FracInt(0), word_scaled |-> FracInt(0),
     bullets |-> FracInt(0), numbers |-> FracInt(0), action_verbs |-> FracInt(0),
     length_score |-> FracInt(0)]
NoParts ==
    [base |-> FracInt(0), kw_score |-> FracInt(0), struct_score |-> FracInt(0),
     len_score |-> FracInt(0)]

RuleIdle ==
    /\ rule_args = [features |-> NoFeatures, section_name |-> ""]
    /\ rule_result = [parts |-> NoParts, value |-> FracInt(0), score |-> 0]
    /\ rule_pc = "idle"

\* score_section reaches its else branch with the features it extracted
RuleCall(sim, kw, ws, b, n, av, ls, name) ==
    /\ rule_pc = "idle"
    /\ rule_args' = [features |-> [semantic_sim |-> sim, kw_density |-> kw,
                                   word_scaled |-> ws, bullets |-> b, numbers |-> n,
                                   action_verbs |-> av, length_score |-> ls],
                     section_name |-> name]
    /\ rule_pc' = "called"
    /\ UNCHANGED <<rule_result, exceptRule>>

\* _rule_based_section_score returns and score_section rounds and clips
RuleScore ==
    /\ rule_pc = "called"
    /\ rule_result' =
         LET f == rule_args.features
             value == rule_based_section_score(f, rule_args.section_name)
         IN  [parts |-> RuleParts(f, rule_args.section_name),
              value |-> value,
              score |-> ScoredResult(value, rule_args.section_name, f).score]
    /\ rule_pc' = "scored"
    /\ UNCHANGED <<rule_args, exceptRule>>

RuleNext ==
    \/ \E sim \in UnitValues, kw \in UnitValues, ws \in WordScaledValues,
          b \in DensityLimits, n \in DensityValues, av \in DensityLimits,
          ls \in UnitValues, name \in RuleSectionNames :
            RuleCall(sim, kw, ws, b, n, av, ls, name)
    \/ RuleScore

---------------------------------------------------------------------------
\* compute_jd_match_score on any similarities (semantic.py)

\* The cosines an embedding model may give, in hundredths: of the whole
\* resume, and of each section of resume_sections
FullCosines == {-10, 20, 70, 100}
SectionCosines == {
    [skills |-> 90, experience |-> 10, summary |-> 50, projects |-> 35,
     education |-> 76, header |-> 5],
    [skills |-> 60, experience |-> 60, summary |-> 60, projects |-> 60,
     education |-> 60, header |-> 60],
    [skills |-> -20, experience |-> 100, summary |-> 0, projects |-> 120,
     education |-> 34, header |-> 100]
}
MatchSectionNames == {"skills", "experience", "summary", "projects", "education", "header"}

MatchIdle ==
    /\ match_args = [full_sim |-> 0, section_sims |-> [k \in {} |-> 0]]
    /\ match_result = 0
    /\ match_pc = "idle"

\* compute_semantic_similarity and compute_section_similarities have
\* answered: each cosine clipped to [0, 1], one for each section of
\* resume_sections
MatchCall(full, present, cosines) ==
    /\ match_pc = "idle"
    /\ match_args' = [full_sim |-> Clip(full),
                      section_sims |-> [k \in present |-> Clip(cosines[k])]]
    /\ match_pc' = "blend"
    /\ UNCHANGED <<match_result, exceptMatch>>

\* The weighted loop and the combined score
MatchReturn ==
    /\ match_pc = "blend"
    /\ match_result' = JdMatchBlend(match_args.full_sim, match_args.section_sims)
    /\ match_pc' = "done"
    /\ UNCHANGED <<match_args, exceptMatch>>

MatchNext ==
    \/ \E full \in FullCosines, present \in SUBSET MatchSectionNames,
          cosines \in SectionCosines : MatchCall(full, present, cosines)
    \/ MatchReturn

---------------------------------------------------------------------------
\* The content improver (content_improver.py)

\* A run of several blanks between two words of a line
Gap == " "

\* The pairs <<w, word>> in which w is a substring of the lower-case word
ImproveSubstrings == {
    <<"apis", "apis">>,
    <<"application", "application.">>,
    <<"customer", "customer">>,
    <<"customer", "internationalization-and-localization-of-customer-facing-tools">>,
    <<"leadership", "leadership">>,
    <<"process", "process">>,
    <<"python", "python">>,
    <<"require", "require">>,
    <<"revenue", "revenue">>,
    <<"sales", "sales">>,
    <<"sql", "sql">>,
    <<"system", "system">>,
    <<"team", "team">>,
    <<"workflow", "workflow">>
}

\* WEAK_VERBS[weak_match][0].capitalize()
Replacement(weak) ==
    CASE weak = "managed" -> "Orchestrated"
      [] weak = "helped" -> "Facilitated"
      [] weak = "worked" -> "Collaborated"
      [] weak = "worked on" -> "Developed"
      [] weak = "did" -> "Executed"
      [] weak = "made" -> "Created"
      [] weak = "used" -> "Leveraged"
      [] weak = "got" -> "Secured"
      [] weak = "was responsible for" -> "Led"
      [] weak = "was in charge of" -> "Directed"
      [] weak = "handled" -> "Managed"
      [] weak = "showed" -> "Demonstrated"
      [] weak = "tried" -> "Pursued"
      [] weak = "ran" -> "Administered"
      [] weak = "looked at" -> "Analyzed"
      [] weak = "checked" -> "Audited"
      [] weak = "set up" -> "Established"
      [] weak = "put together" -> "Assembled"
      [] weak = "came up with" -> "Devised"
      [] weak = "went through" -> "Reviewed"
      [] weak = "took care of" -> "Managed"
      [] weak = "talked to" -> "Consulted"
      [] weak = "changed" -> "Transformed"
      [] weak = "fixed" -> "Resolved"
      [] weak = "started" -> "Initiated"
      [] weak = "ended" -> "Concluded"
      [] weak = "improved" -> "Enhanced"
      [] weak = "increased" -> "Amplified"
      [] weak = "decreased" -> "Reduced"
      [] weak = "assisted" -> "Supported"
      [] weak = "participated" -> "Contributed"
      [] weak = "communicated" -> "Presented"
      [] weak = "learned" -> "Mastered"

\* The section names of _is_header
IMPROVE_HEADERS == {
    "summary", "skills", "experience", "education", "projects",
    "certifications", "achievements", "objective", "profile"
}

\* _is_header(text)
is_header(line) ==
    IF LineLen(line) > 60 THEN FALSE
    ELSE IF IsUpper(line) THEN TRUE
    ELSE Len(line) = 1 /\ \E w \in IMPROVE_HEADERS : Lower(line[1]) \in W(w)

\* re.sub(r"^[•\-\*•\d.)]+\s*", "", stripped).strip(): one bullet mark
\* at the start goes, with the blanks after it
CleanLine(line) ==
    IF line # <<>> /\ Head(line) \in BulletMarks THEN Tail(line) ELSE line

\* original.lower().split()
ImproveWords(line) ==
    LowerWords(Filter(line, [t \in Range(line) |-> t # Gap]))

\* w in original.lower()
Mentions(line, w) ==
    \E i \in 1..Len(line) : <<w, Lower(line[i])>> \in ImproveSubstrings
MentionsAny(line, ws) == \E w \in ws : Mentions(line, w)

\* Whether re.compile("^" + re.escape(weak_match), re.I) matches the text:
\* the phrase's words stand at its start, a single blank between them
StartsWithPhrase(line, phrase) ==
    \E n \in 1..3 : FirstWords(LowerLine(line), n) = phrase

\* The hint appended when the text holds no digit, by the first list of
\* words of which one is in the text
QuantHint(line) ==
    IF Mentions(line, "team")
    THEN [suffix |-> ", impacting a team of [X] members",
          issue |-> "added team size quantification"]
    ELSE IF MentionsAny(line, {"project", "feature", "system", "application"})
    THEN [suffix |-> ", resulting in [X]% improvement in [metric]",
          issue |-> "added measurable impact"]
    ELSE IF MentionsAny(line, {"process", "workflow", "efficiency"})
    THEN [suffix |-> ", reducing [time/cost] by [X]%",
          issue |-> "added efficiency metric"]
    ELSE IF MentionsAny(line, {"revenue", "sales", "growth", "customer"})
    THEN [suffix |-> ", generating $[X] in additional [revenue/savings]",
          issue |-> "added financial impact"]
    ELSE [suffix |-> ", achieving [X]% [relevant metric]",
          issue |-> "added quantification placeholder"]

\* A text of the improver: the verb put in place of the weak phrase at its
\* start ("" when none was), the text it was made from, and what was
\* appended after its final full stops were taken off ("" when nothing)
Unchanged(line) == [verb |-> "", of |-> line, suffix |-> ""]

\* The test of _try_improve with only "if not issues" kept
DiscardsOnNoIssue(issues, original, improved) == issues = <<>>

\* not issues, or improved == original and len(issues) <= 1
Discards(issues, original, improved) ==
    issues = <<>> \/ (improved = original /\ Len(issues) <= 1)

\* _try_improve(original, jd_keywords): what it found, what it made of the
\* text and whether it returns a candidate
try_improve(line, jd_keywords) ==
    LET words == ImproveWords(line)
        weak_match == IF words = <<>> THEN "" ELSE MatchedWeak(words)
        substituted == weak_match # "" /\ StartsWithPhrase(line, weak_match)
        has_number == \E i \in 1..Len(line) : line[i] \in HasDigit
        first_five == Take(jd_keywords, 5)
        missing_kws == Filter(first_five, [k \in Range(first_five) |-> ~Mentions(line, k)])
        named == Take(missing_kws, 2)
        issues ==
            (IF weak_match # "" THEN <<"upgraded to a stronger action verb">> ELSE <<>>)
            \o (IF ~has_number THEN <<QuantHint(line).issue>> ELSE <<>>)
            \o (IF missing_kws # <<>> /\ Len(missing_kws) <= 3
                THEN <<"consider incorporating: " \o named[1]
                       \o (IF Len(named) = 2 THEN ", " \o named[2] ELSE "")>>
                ELSE <<>>)
        original == Unchanged(line)
        improved == [verb |-> IF substituted THEN Replacement(weak_match) ELSE "",
                     of |-> line,
                     suffix |-> IF has_number THEN "" ELSE QuantHint(line).suffix]
    IN  [issues |-> IF words = <<>> THEN <<>> ELSE issues,
         original |-> original,
         improved |-> improved,
         candidate |-> words # <<>> /\ ~Discards(issues, original, improved)]

\* The loop of generate_content_improvements: the calls of _try_improve it
\* has made and the items it has kept, each with the line it came from
RECURSIVE ImproveFold(_, _, _, _)
ImproveFold(st, ls, jd_keywords, max_improvements) ==
    IF st = st /\ ls = <<>> THEN st
    ELSE IF Len(st.improvements) >= max_improvements THEN st
    ELSE LET stripped == Head(ls)
             clean == CleanLine(stripped)
             tried == [line |-> stripped] @@ try_improve(clean, jd_keywords)
             next == IF LineLen(stripped) < 20 \/ is_header(stripped) THEN st
                     ELSE IF LineLen(clean) < 15 THEN st
                     ELSE [tries |-> Append(st.tries, tried),
                           improvements |-> IF tried.candidate
                                            THEN Append(st.improvements, tried)
                                            ELSE st.improvements]
         IN  ImproveFold(next, Tail(ls), jd_keywords, max_improvements)

\* generate_content_improvements(resume_text, job_description, max_improvements)
generate_content_improvements(resume_text, job_description, max_improvements) ==
    ImproveFold([tries |-> <<>>, improvements |-> <<>>],
                StripLeft(StripRight(resume_text)),
                extract_keywords(job_description, 20), max_improvements)

\* The lines and the job descriptions of the improver's runs
ImproveLines == {
    <<>>,
    <<"PROFESSIONAL", "WORK", "EXPERIENCE">>,
    <<"wrote", "code">>,
    <<"-", "Worked", "on", "the", "billing", "system", "for", "the", "sales", "team">>,
    <<"Led", "5", "engineers", "to", "ship", "the", "Python", "APIs">>,
    <<"Worked", " ", "on", "5", "SQL", "and", "Python", "pipelines">>,
    <<"Managed", "the", "release", "process", "and", "workflow">>,
    <<"2)", "Grew", "customer", "revenue", "across", "regions">>,
    <<"Built", "the", "analytics", "application.">>,
    <<"SHIPPED", LongUpperWord>>,
    <<"------------", "led", "team">>,
    <<"Wrote", "documentation", "for", "new", "hires">>,
    <<"We", "require", "5", "Python", "SQL", "leadership", "reviews">>
}

ImproveJobs == {
    <<>>,
    <<<<"We", "require", "Python", "and", "SQL", "and", "leadership">>>>,
    <<<<"We", "require", "Python", "and", "SQL", "and", "leadership">>, <<"Go", "go", "of", "APIs">>>>
}

MaxImproveLines == 2
\* The values of max_improvements; analyze_resume leaves it at its default, 5
MaxImprovements == {0, 1, 5}

ImproveIdle ==
    /\ imp_text = <<>>
    /\ imp_args = [job_description |-> <<>>, max_improvements |-> 0]
    /\ imp_result = [tries |-> <<>>, improvements |-> <<>>]
    /\ imp_pc = "idle"

\* One more line of the resume
ImproveLine(line) ==
    /\ imp_pc = "idle"
    /\ Len(imp_text) < MaxImproveLines
    /\ imp_text' = Append(imp_text, line)
    /\ UNCHANGED <<imp_args, imp_result, imp_pc, exceptImprove>>

\* generate_content_improvements on the resume, from its first line to its
\* return
ImproveReturn(jd, max_improvements) ==
    /\ imp_pc = "idle"
    /\ imp_args' = [job_description |-> jd, max_improvements |-> max_improvements]
    /\ imp_result' = generate_content_improvements(imp_text, jd, max_improvements)
    /\ imp_pc' = "done"
    /\ UNCHANGED <<imp_text, exceptImprove>>

ImproveNext ==
    \/ \E line \in ImproveLines : ImproveLine(line)
    \/ \E jd \in ImproveJobs, max_improvements \in MaxImprovements :
          ImproveReturn(jd, max_improvements)

---------------------------------------------------------------------------
\* tokenize, character by character (nlp_engine.py, backend/analyzer.py)

\* The most characters {1,30} takes after the first letter
MaxTokenTail == 30

\* str.lower() on the characters of the runs
LowerChar(c) == IF c = "B" THEN "b" ELSE c
LowerChars(s) == [i \in 1..Len(s) |-> LowerChar(s[i])]

\* [a-zA-Z], [a-zA-Z+#.] and \w on those characters
IsLetter(c) == c \in {"a", "b", "B"}
IsTokenChar(c) == IsLetter(c) \/ c \in {"+", "#", "."}
IsWordChar(c) == IsLetter(c) \/ c \in {"1", "_"}

\* \b between s[p] and s[p + 1], the ends of the text counted as no word
\* character
Boundary(s, p) ==
    (p >= 1 /\ IsWordChar(s[p])) # (p < Len(s) /\ IsWordChar(s[p + 1]))

\* The places at which a match that starts at s[i] may end
MatchEnds(s, i) ==
    IF ~(Boundary(s, i - 1) /\ IsLetter(s[i])) THEN {}
    ELSE {e \in (i + 1)..Min(i + MaxTokenTail, Len(s)) :
             /\ \A k \in (i + 1)..e : IsTokenChar(s[k])
             /\ Boundary(s, e)}

\* re.findall from s[i] on: the longest match at the first place that has
\* one, then the search goes on after it
RECURSIVE FindAll(_, _)
FindAll(s, i) ==
    IF i > Len(s) THEN <<>>
    ELSE IF MatchEnds(s, i) = {} THEN FindAll(s, i + 1)
    ELSE LET e == CHOOSE x \in MatchEnds(s, i) : \A y \in MatchEnds(s, i) : y <= x
         IN  <<SubSeq(s, i, e)>> \o FindAll(s, e + 1)

\* re.findall(r"\b[a-zA-Z][a-zA-Z+#.]{1,30}\b", text.lower())
TokenizeChars(s) == FindAll(LowerChars(s), 1)

\* The pieces the texts are made of: runs of the letter a, and single
\* characters
Run(c, n) == [i \in 1..n |-> c]
RunLengths == {1, 2, 30, 31, 32}
Pieces == {Run("a", n) : n \in RunLengths}
          \cup {<<c>> : c \in {"B", "+", "#", ".", " ", "1", "_"}}
MaxPieces == 3

TokIdle ==
    /\ tok_text = <<>>
    /\ tok_pieces = 0
    /\ tok_result = <<>>
    /\ tok_pc = "idle"

\* One more piece of the text
TokPiece(piece) ==
    /\ tok_pc = "idle"
    /\ tok_pieces < MaxPieces
    /\ tok_text' = tok_text \o piece
    /\ tok_pieces' = tok_pieces + 1
    /\ UNCHANGED <<tok_result, tok_pc, exceptTok>>

\* tokenize(text)
TokReturn ==
    /\ tok_pc = "idle"
    /\ tok_result' = TokenizeChars(tok_text)
    /\ tok_pc' = "done"
    /\ UNCHANGED <<tok_text, tok_pieces, exceptTok>>

TokNext ==
    \/ \E piece \in Pieces : TokPiece(piece)
    \/ TokReturn

---------------------------------------------------------------------------
\* get_gemini_response on its own (server.py)

\* The values of the environment variable GEMINI_MODEL: set to nothing,
\* unset (the default), set to another name
EnvModels == {"", "models/gemini-2.5-flash", "models/gemini-1.5-flash"}

\* The loop that tries an empty name like any other
SkipsNothing(candidate) == FALSE

\* if not candidate: continue
Skips(candidate) == candidate = ""

NoGemCall == [configured |-> FALSE, candidates |-> <<>>]

GemIdle ==
    /\ gem_call = NoGemCall
    /\ gem_next = 0
    /\ gem_tried = <<>>
    /\ gem_outcome = [status |-> "", text |-> ""]
    /\ gem_pc = "idle"

\* get_gemini_response(prompt) is called, after a setup at import that
\* configured the client or did not
GemCall(has_key, configures, env_model) ==
    /\ gem_pc = "idle"
    /\ gem_call' = [configured |-> has_key /\ configures,
                    candidates |-> GEMINI_MODEL_CANDIDATES(env_model)]
    /\ gem_next' = 1
    /\ gem_tried' = <<>>
    /\ gem_outcome' = [status |-> "", text |-> ""]
    /\ gem_pc' = "entered"
    /\ UNCHANGED exceptGem

\* not gemini_available or _genai is None: 503 before the loop
GemNotConfigured ==
    /\ gem_pc = "entered"
    /\ ~gem_call.configured
    /\ gem_outcome' = [status |-> "HTTPException 503", text |-> ""]
    /\ gem_pc' = "done"
    /\ UNCHANGED <<gem_call, gem_next, gem_tried, exceptGem>>

\* The loop is entered
GemLoop ==
    /\ gem_pc = "entered"
    /\ gem_call.configured
    /\ gem_pc' = "loop"
    /\ UNCHANGED <<gem_call, gem_next, gem_tried, gem_outcome, exceptGem>>

\* An empty name is passed over
GemSkip ==
    /\ gem_pc = "loop"
    /\ gem_next <= Len(gem_call.candidates)
    /\ Skips(gem_call.candidates[gem_next])
    /\ gem_next' = gem_next + 1
    /\ UNCHANGED <<gem_call, gem_tried, gem_outcome, gem_pc, exceptGem>>

\* GenerativeModel(candidate).generate_content(prompt) or response.text
\* raises: the error is noted and the loop goes on
GemCandidateFails ==
    /\ gem_pc = "loop"
    /\ gem_next <= Len(gem_call.candidates)
    /\ ~Skips(gem_call.candidates[gem_next])
    /\ gem_tried' = Append(gem_tried, [name |-> gem_call.candidates[gem_next], ok |-> FALSE])
    /\ gem_next' = gem_next + 1
    /\ UNCHANGED <<gem_call, gem_outcome, gem_pc, exceptGem>>

\* The candidate answers: return response.text
GemCandidateAnswers(kind) ==
    /\ gem_pc = "loop"
    /\ gem_next <= Len(gem_call.candidates)
    /\ ~Skips(gem_call.candidates[gem_next])
    /\ gem_tried' = Append(gem_tried, [name |-> gem_call.candidates[gem_next], ok |-> TRUE])
    /\ gem_outcome' = [status |-> "returned", text |-> kind]
    /\ gem_pc' = "done"
    /\ UNCHANGED <<gem_call, gem_next, exceptGem>>

\* The loop ends without a return: 502 with the diagnostics
GemGivesUp ==
    /\ gem_pc = "loop"
    /\ gem_next > Len(gem_call.candidates)
    /\ gem_outcome' = [status |-> "HTTPException 502", text |-> ""]
    /\ gem_pc' = "done"
    /\ UNCHANGED <<gem_call, gem_next, gem_tried, exceptGem>>

GemNext ==
    \/ \E has_key, configures \in BOOLEAN, env_model \in EnvModels :
           GemCall(has_key, configures, env_model)
    \/ GemNotConfigured
    \/ GemLoop
    \/ GemSkip
    \/ GemCandidateFails
    \/ \E kind \in ResponseKinds : GemCandidateAnswers(kind)
    \/ GemGivesUp

---------------------------------------------------------------------------
\* Specifications: one per component, the other components at rest

InitAll ==
    /\ SegIdle /\ LoadIdle /\ VerbIdle /\ QuantIdle /\ ScoreIdle /\ ServerIdle /\ PipeIdle
    /\ AtsIdle
    /\ GradeIdle
    /\ OverlapIdle
    /\ ClicheIdle
    /\ ResultIdle
    /\ SemIdle
    /\ RoleIdle
    /\ KwIdle
    /\ ReadIdle
    /\ RuleIdle
    /\ MatchIdle
    /\ ImproveIdle
    /\ TokIdle
    /\ GemIdle

SpecSegment == InitAll /\ [][SegNext]_vars

SpecLoad == InitAll /\ [][LoadNext]_vars

SpecVerbs == InitAll /\ [][VerbNext]_vars

SpecQuant == InitAll /\ [][QuantNext]_vars

SpecScore == InitAll /\ [][ScoreNext]_vars

SpecServer == InitAll /\ [][ServerNext]_vars

SpecPipeline == InitAll /\ [][PipeNext]_vars

SpecAts == InitAll /\ [][AtsNext]_vars

SpecGrade == InitAll /\ [][GradeNext]_vars

SpecOverlap == InitAll /\ [][OverlapNext]_vars

SpecCliche == InitAll /\ [][ClicheNext]_vars

SpecResult == InitAll /\ [][ResultNext]_vars

SpecSemantic == InitAll /\ [][SemNext]_vars

SpecRoles == InitAll /\ [][RoleNext]_vars

SpecKeywords == InitAll /\ [][KwNext]_vars

SpecReadability == InitAll /\ [][ReadNext]_vars

SpecRule == InitAll /\ [][RuleNext]_vars

SpecMatch == InitAll /\ [][MatchNext]_vars

SpecImprove == InitAll /\ [][ImproveNext]_vars

SpecTokens == InitAll /\ [][TokNext]_vars

SpecGemini == InitAll /\ [][GemNext]_vars

---------------------------------------------------------------------------
\* The claims

\* The lines of a text that are neither blank nor a section header
IsContentLine(line) == line # <<>> /\ MatchedSection(line) = ""

ContentLines(text) == {text[i] : i \in {j \in 1..Len(text) : IsContentLine(text[j])}}

\* How often line occurs in the text of the returned sections
OccurrencesInSections(line, secs) ==
    SumOver(DOMAIN secs, [k \in DOMAIN secs |-> Count(line, secs[k])])

\* C1: when detect_sections returns, every non-blank line of the input that
\* is not a section header occurs in the returned section texts exactly as
\* often as in the input: none is lost, none is in two sections.
C1_NoLineLostOrDuplicated ==
    seg_pc = "done" =>
        \A line \in ContentLines(lines) :
            OccurrencesInSections(line, sections) = Count(line, lines)

\* C2: for any interleaving of calls to _get_model (and to _get_nlp), at most
\* one model object is ever built per global, and a stored handle is never
\* replaced by a later load.
C2_LoadedAtMostOnce ==
    \A k \in Kinds : built[k] <= 1 /\ ~replaced[k]

\* No entry of sequence s occurs twice
NoRepeat(s) == \A i, j \in 1..Len(s) : s[i] = s[j] => i = j


\* C9: in the result of analyze_action_verbs no verb or verb phrase repeats
\* within weak_verbs or within strong_verbs, and none is in both lists.
C9_EachVerbCountedOnce ==
    verb_pc = "done" =>
        /\ NoRepeat(verb_result.weak_verbs)
        /\ NoRepeat(verb_result.strong_verbs)
        /\ Range(verb_result.weak_verbs) \cap Range(verb_result.strong_verbs) = {}

\* C5: a text of 10 bullets, 5 of them holding a percentage and the other 5
\* no number, yields quantified_bullets = 5, total_bullets = 10 and score
\* 85; and every result has score 20 without bullets and
\* min(100, round(quantified / total * 150 + 10)) otherwise.
C5_HalfQuantifiedScores85 ==
    quant_pc = "done" =>
        /\ (quant_seen = [lines |-> 10, percent |-> 5, plain |-> 5]
              => quant_result = [score |-> 85, quantified_bullets |-> 5,
                                 total_bullets |-> 10])
        /\ quant_result.score =
              IF quant_result.total_bullets = 0 THEN 20
              ELSE Min(100, RoundHalfEven(
                     quant_result.quantified_bullets * 150
                       + 10 * quant_result.total_bullets,
                     quant_result.total_bullets))


\* Whether the call in progress took the early return: the fixed score and
\* sentence, no features extracted, the embedding model not asked
ShortCircuited ==
    /\ sec_result = <<[score |-> 15,
                       suggestion |-> [kind |-> "missing_or_brief", section |-> sec_args.name,
                                       items |-> <<>>]]>>
    /\ sec_features = <<>>
    /\ sec_engine = 0

\* Whether the call in progress went into feature extraction
WentThroughFeatures == sec_features # <<>> \/ sec_pc = "raised"

\* C10 as stated: score_section takes the early return (score 15, the
\* "missing or too brief" sentence, no features, no similarity engine) exactly
\* when the text is missing or holds fewer than 10 characters that are not
\* white space, and every other text goes through feature extraction.
C10_ShortCircuitUnderTenNonSpace ==
    sec_pc \in {"done", "features", "raised"} =>
        /\ ShortCircuited <=> (sec_args.text = <<>> \/ NonSpaceLen(sec_args.text) < 10)
        /\ ~ShortCircuited => WentThroughFeatures

\* C10 amended: the early return is taken exactly when the text is missing or
\* its length once leading and trailing white space is stripped (inner
\* white space counted) is under 10; every other text goes through feature
\* extraction.
C10_ShortCircuitUnderTenStripped ==
    sec_pc \in {"done", "features", "raised"} =>
        /\ ShortCircuited <=>
               (sec_args.text = <<>> \/ TextLen(StripRight(StripLeft(sec_args.text))) < 10)
        /\ ~ShortCircuited => WentThroughFeatures

\* C10 witness: a text of 10 characters or more that strips to fewer than 10
\* took the early return
C10_Witness_PaddedTextShortCircuits ==
    /\ sec_pc = "done"
    /\ ShortCircuited
    /\ TextLen(sec_args.text) >= 10


\* C8: in hybrid mode, whenever the AI pass fails (every candidate model
\* failing, an answer that does not parse, an error while the result is built
\* or merged), the response is the local result exactly as analyze_locally
\* returned it but for the tag 'local (AI fallback)', and no error reaches the
\* caller.
C8_HybridFallsBackToLocal ==
    (srv_pc = "responded" /\ srv_request.mode = "hybrid" /\ "hybrid_analyze" \in srv_entered) =>
        /\ srv_response.status = 200
        /\ srv_ai.failed # "" =>
               srv_response.body =
                   <<[srv_returned[1] EXCEPT !.analysis_mode = "local (AI fallback)"]>>

\* C8 witness: an error while merging (a jd_match that is no number) ended in
\* the local result under the fallback tag
C8_Witness_MergeErrorFallsBack ==
    /\ srv_pc = "responded" /\ srv_request.mode = "hybrid"
    /\ srv_ai.kind = "bad_number" /\ srv_ai.failed = "TypeError"
    /\ srv_response.body # <<>>
    /\ srv_response.body[1].analysis_mode = "local (AI fallback)"

\* ---- C3 ----
\* C3: whatever models are unavailable (the embedding model failed to load,
\* a trained regressor absent or failing to load), an /analyze request
\* that passed validation is answered with an analysis result; it never
\* fails because a model is unavailable.
C3_UnavailableModelsFallBack ==
    (pipe_pc = "responded" /\ pipe_request.entered) =>
        /\ pipe_response.status = 200
        /\ pipe_response.result.analysis_mode = "ml"

\* ---- C4 ----
\* The standard sections the resume has
PresentSections == StandardSections \cap DOMAIN pipe_work.sections

\* C4: the mean section score the grade uses is taken over the standard
\* sections present in the resume only; an absent section contributes no
\* value to it.
C4_AbsentSectionsLeftOutOfMean ==
    (pipe_pc = "responded" /\ pipe_response.status = 200) =>
        LET scores == pipe_response.result.section_scores
            total == SumOver(PresentSections, [s \in PresentSections |-> scores[s].score])
        IN  pipe_grade.avg_section_score.n * Max(Cardinality(PresentSections), 1)
                = total * pipe_grade.avg_section_score.d

\* ---- C6 ----
\* The end-to-end scenario: its resume, its job description, and an
\* embedding model that puts 'leadership' below the semantic threshold
ScenarioResume ==
    <<<<"Summary">>, <<"Skills:", "Python,", "SQL">>, <<"Experience">>,
      <<"-", "Built", "APIs">>, <<"-", "Cut", "latency", "by", "50%">>, <<"Education">>>>
ScenarioJob == <<<<"We", "require", "Python", "and", "SQL", "and", "leadership">>>>
ScenarioAnswered ==
    /\ pipe_pc = "responded" /\ pipe_response.status = 200
    /\ pipe_request.text = ScenarioResume /\ pipe_request.jd = ScenarioJob
    /\ pipe_work.encoded /\ KeywordCos(pipe_work.answer, "leadership") < SemanticThreshold

\* C6: in the end-to-end scenario the result has 'python' and 'sql' among
\* the found keywords, 'leadership' among the missing ones, and a skills
\* score strictly above the summary score.
C6_ScenarioSkillsAboveSummary ==
    ScenarioAnswered =>
        LET result == pipe_response.result
        IN  /\ {"python", "sql"} \subseteq Range(result.found_keywords)
            /\ "leadership" \in Range(result.missing_keywords)
            /\ result.section_scores["skills"].score > result.section_scores["summary"].score

\* ---- C7 ----
\* C7: no analysis entry point (/api/analyze, /api/analyze/text, the ML
\* server's /analyze) runs an analysis function on a resume text under 50
\* characters or a job description under 10 characters.
C7_ShortTextsNeverAnalysed ==
    /\ srv_entered # {} =>
           /\ TextLen(srv_request.text) >= MinResumeLen
           /\ TextLen(srv_request.jd) >= MinJobLen
    /\ pipe_request.entered =>
           /\ TextLen(pipe_request.text) >= MinResumeLen
           /\ TextLen(pipe_request.jd) >= MinJobLen

\* ---- C11 ----
\* The features the rule-based ATS score reads, and values each can take
AtsFlags == {"email", "phone", "linkedin", "github", "no_tables", "no_images"}
AtsScaledFeatures == {"quant", "bullets", "word_scaled"}
AtsFeatureValues(name) ==
    IF name \in AtsFlags THEN {FracInt(0), FracInt(1)}
    ELSE IF name = "standard" THEN {FracInt(k) : k \in 0..5}
    ELSE {FracInt(0), Frac(1, 2), Frac(2, 3), FracInt(1), Frac(3, 2), FracInt(2), Frac(5, 2),
          FracInt(3), FracInt(5), FracInt(8), Frac(17, 2), FracInt(9), FracInt(10)}
AtsDensityValues == {Frac(k, 4) : k \in 0..4}

\* The rule-based score does not fall when the named feature of the vector
\* scored is raised to any value up to top, the rest held fixed
AtsNeverFallsIn(name, top) ==
    \A v \in AtsFeatureValues(name) :
        (FracLess(ats_features[name], v) /\ ~FracLess(top, v)) =>
            rule_based_ats_score([ats_features EXCEPT ![name] = v], ats_args.keyword_density)
                >= ats_result.overall_score

\* Nor when the keyword density is raised
AtsNeverFallsInDensity ==
    \A d \in AtsDensityValues :
        FracLess(ats_args.keyword_density, d) =>
            rule_based_ats_score(ats_features, d) >= ats_result.overall_score

AtsScoredByRules == ats_pc = "done" /\ ats_result.by = "rules"

\* C11 as stated: the rule-based ATS score is non-decreasing in each feature
\* it reads, the others held fixed, the scaled word count included.
C11_MonotoneInEveryFeature ==
    AtsScoredByRules =>
        /\ \A name \in AtsFlags \cup AtsScaledFeatures \cup {"standard"} :
               AtsNeverFallsIn(name, FracInt(10))
        /\ AtsNeverFallsInDensity

\* C11 as amended: the rule-based ATS score is non-decreasing in each of the
\* contact flags, the standard-section count, the keyword density, the
\* quantification and bullet counts and the no-table and no-image flags; in
\* the scaled word count it is non-decreasing up to 8 only.
C11_MonotoneInPositiveSignals ==
    AtsScoredByRules =>
        /\ \A name \in AtsFlags \cup {"quant", "bullets", "standard"} :
               AtsNeverFallsIn(name, FracInt(10))
        /\ AtsNeverFallsIn("word_scaled", FracInt(8))
        /\ AtsNeverFallsInDensity

\* A resume without an email scored by the rules, which an email would
\* score higher
C11_Witness_EmailRaisesScore ==
    /\ AtsScoredByRules
    /\ ats_features.email = FracInt(0)
    /\ rule_based_ats_score([ats_features EXCEPT !.email = FracInt(1)], ats_args.keyword_density)
           > ats_result.overall_score

\* ---- C12 ----
\* The most each group of points may give
AtsGroupCaps ==
    [contact |-> 20, standard |-> 25, keywords |-> 25, quant |-> 10, bullets |-> 10,
     clean |-> 5, length |-> 5]

\* The points of the call in progress, within their caps
AtsPointsWithinCaps ==
    LET p == AtsGroupPoints(ats_features, ats_args.keyword_density)
    IN  \A g \in DOMAIN AtsGroupCaps :
            ~FracLess(p[g], FracInt(0)) /\ ~FracLess(FracInt(AtsGroupCaps[g]), p[g])

\* The sum of the points of the call in progress
AtsPointsSum ==
    LET p == AtsGroupPoints(ats_features, ats_args.keyword_density)
    IN  FracAdd(FracAdd(FracAdd(p.length, p.clean), FracAdd(p.bullets, p.quant)),
                FracAdd(FracAdd(p.keywords, p.standard), p.contact))

\* C12 as stated: the rule-based ATS score is an integer in [0,100] equal to
\* the sum of the group points, each group within its cap.
C12_ScoreIsSumOfGroupPoints ==
    AtsScoredByRules =>
        /\ ats_result.overall_score \in 0..100
        /\ AtsPointsWithinCaps
        /\ FracInt(ats_result.overall_score) = AtsPointsSum

\* C12 as amended: the rule-based ATS score is an integer in [0,100] equal to
\* the sum of the group points rounded to the nearest integer (a half to the
\* even neighbour), each group within its cap.
C12_ScoreIsRoundedSumOfGroupPoints ==
    AtsScoredByRules =>
        /\ ats_result.overall_score \in 0..100
        /\ AtsPointsWithinCaps
        /\ ats_result.overall_score = FracRound(AtsPointsSum)

\* A full resume scored 100 by the rules, every group at its cap
C12_Witness_EveryGroupAtItsCap ==
    /\ AtsScoredByRules
    /\ ats_result.overall_score = 100
    /\ \A g \in DOMAIN AtsGroupCaps :
           AtsGroupPoints(ats_features, ats_args.keyword_density)[g] = FracInt(AtsGroupCaps[g])

\* ---- C13 ----
\* The letters from the best to the worst
GradeLetters == <<"A+", "A", "A-", "B+", "B", "B-", "C+", "C", "C-", "D+", "D", "F">>
GradeRank(letter) == CHOOSE i \in 1..Len(GradeLetters) : GradeLetters[i] = letter

\* The letter a numeric score earns: in steps of five from 45 up to 95
GradeBand(n) ==
    IF n >= 95 THEN "A+" ELSE IF n < 45 THEN "F" ELSE GradeLetters[12 - ((n - 40) \div 5)]

\* C13: compute_grade gives every numeric score in 0..100 the letter of the
\* first GRADE_MAP threshold, from the highest down, that the score reaches:
\* lower bounds are inclusive (95 is A+, 94 is A, 45 is D, 44 is F), and a higher
\* score never gets a worse letter.
C13_GradeIsFirstThresholdReached ==
    grade_pc = "done" =>
        LET n == grade_result.numeric_score
        IN  /\ n \in 0..100
            /\ grade_result.grade = GradeBand(n)
            /\ \E i \in 1..Len(GRADE_MAP) :
                   /\ GRADE_MAP[i][2] = grade_result.grade
                   /\ n >= GRADE_MAP[i][1]
                   /\ \A j \in 1..(i - 1) : n < GRADE_MAP[j][1]
            /\ n = 95 => grade_result.grade = "A+"
            /\ n = 94 => grade_result.grade = "A"
            /\ n = 45 => grade_result.grade = "D"
            /\ n = 44 => grade_result.grade = "F"
            /\ \A m \in 0..n : GradeRank(LetterGrade(m)) >= GradeRank(grade_result.grade)

\* A grade given on a lower bound: 95 graded A+
C13_Witness_NinetyFiveIsAPlus ==
    /\ grade_pc = "done"
    /\ grade_result.numeric_score = 95
    /\ grade_result.grade = "A+"

C15_SectionsSegmentToThemselves ==
    seg_pc = "done" =>
        \A name \in DOMAIN sections :
            detect_sections(sections[name]) = [k \in {"header"} |-> sections[name]]

\* A document with a header line returned as a named section of two lines
\* or more
C15_Witness_NamedSectionOfSeveralLines ==
    /\ seg_pc = "done"
    /\ \E name \in DOMAIN sections : name # "header" /\ Len(sections[name]) >= 2

\* ---- C16 ----
\* No line of the document read is a section header
NoHeaderLine ==
    \A i \in 1..Len(lines) :
        ~(/\ lines[i] # <<>>
          /\ LineLen(lines[i]) < HeaderMaxLen
          /\ \E j \in 1..Len(SECTION_PATTERNS) : PatternMatches(lines[i], SECTION_PATTERNS[j]))

ClichePhrases == [i \in 1..Len(cliche_found) |-> cliche_found[i].phrase]

\* The text read has these words one after the other, in any casing
TextHas(ws) == OccursIn(ws, LowerLine(Words(cliche_text)))

\* C17: detect_cliches reports no phrase more than once, whatever the casing
\* and however often the phrase occurs; a text with 'responsible for' and
\* 'results-driven' yields each exactly once; a phrase a regex pattern covers
\* is reported by the pattern pass and not again by the dictionary pass.
C17_EachClicheReportedOnce ==
    cliche_pc = "done" =>
        /\ NoRepeat(ClichePhrases)
        /\ (TextHas(<<"responsible", "for">>) /\ TextHas(<<"results-driven">>)) =>
               /\ Count(<<"responsible", "for">>, ClichePhrases) = 1
               /\ Count(<<"results-driven">>, ClichePhrases) = 1
        /\ \A n \in 1..Len(CLICHE_PATTERNS) :
               PatternFinds(CLICHE_PATTERNS[n], cliche_text) =>
                   /\ Count(CLICHE_PATTERNS[n].phrase, ClichePhrases) = 1
                   /\ \A i \in 1..Len(cliche_found) :
                          cliche_found[i].phrase = CLICHE_PATTERNS[n].phrase =>
                              cliche_found[i].by = "pattern"

\* A text with 'responsible for' three times in three casings, once across a
\* line break, and 'results-driven' twice, each reported once
C17_Witness_RepeatedInSeveralCasings ==
    /\ cliche_pc = "done"
    /\ cliche_text = <<<<"RESPONSIBLE">>, <<"For", "results-driven", "work">>,
                       <<"Results-Driven", "and", "responsible", "for", "QA">>>>
    /\ ClichePhrases = <<<<"responsible", "for">>, <<"results-driven">>>>

\* ---- C18 ----
\* C18: with no trained model loaded, every score of the analysis result
\* (jd_match, ats_score, each section score, readability_score, the
\* action-verb score, the quantification score, section_completeness) is an
\* integer in [0,100] and keyword_density is in [0,1]; the same holds for the
\* result of analyze_locally.
C18_ScoresWithinTheirRanges ==
    result_pc = "done" =>
        /\ \A field \in result_scores : field[2] \in 0..100
        /\ ~FracLess(result_density, FracInt(0))
        /\ ~FracLess(FracInt(1), result_density)

\* A quantification score at its upper limit, every bullet quantified
C18_Witness_QuantificationScoreAtLimit ==
    /\ result_pc = "done"
    /\ result_mode = "ml"
    /\ result_scores = {<<"quantification_score", 100>>}

\* ---- C19 ----
\* A text that is empty or has white space only
WhiteSpaceOnly(text) == \A i \in 1..Len(text) : text[i] = <<>>

\* The input for which the function entered is to return at once
Degenerate ==
    CASE sem_args.fn = "compute_semantic_similarity" ->
             WhiteSpaceOnly(sem_args.text_a) \/ WhiteSpaceOnly(sem_args.text_b)
      [] sem_args.fn = "compute_section_similarities" ->
             DOMAIN sem_args.sections = {} \/ WhiteSpaceOnly(sem_args.text_b)
      [] OTHER -> Len(sem_args.jd_keywords) = 0 \/ WhiteSpaceOnly(sem_args.text_a)

\* C19: compute_semantic_similarity returns 0 and never calls the embedding
\* model when either text is empty or whitespace-only; likewise
\* compute_section_similarities (empty section map or blank job description)
\* and compute_keyword_semantic_matches (empty keyword list or blank resume)
\* return without any encode call.
C19_DegenerateInputsNeverEncode ==
    (sem_pc = "done" /\ Degenerate) =>
        /\ sem_encodes = 0
        /\ sem_args.fn = "compute_semantic_similarity" => sem_result = FracInt(0)

\* compute_section_similarities returned for a section map with two sections
\* and a job description of blank lines, with no encode call
C19_Witness_BlankJobDescription ==
    /\ sem_pc = "done"
    /\ sem_args.fn = "compute_section_similarities"
    /\ DOMAIN sem_args.sections = {"summary", "skills"}
    /\ sem_args.text_b = <<<<>>, <<>>, <<>>>>
    /\ sem_encodes = 0
    /\ sem_result = [k \in {} |-> 0]

\* ---- C20 ----
\* The roles that qualify: two or more of their keywords are in the resume
Qualifying == {n \in 1..Len(ROLE_KEYWORDS) : RoleMatches(n, role_text) >= 2}

\* The place of a role name in the taxonomy
RoleNumber(name) == CHOOSE n \in 1..Len(ROLE_KEYWORDS) : ROLE_KEYWORDS[n].role = name

\* Role n comes before role m: more matches, or as many and declared earlier
Before(n, m) ==
    \/ RoleMatches(n, role_text) > RoleMatches(m, role_text)
    \/ RoleMatches(n, role_text) = RoleMatches(m, role_text) /\ n < m

\* C20: compute_recommended_roles returns between 1 and 5 roles: exactly the
\* roles with at least 2 of their keywords present as case-insensitive
\* substrings of the resume, ordered by match count descending with ties kept
\* in taxonomy declaration order and cut to the first 5; when no role
\* qualifies it returns the two generic roles 'Software Developer' and
\* 'IT Professional'.
C20_RolesRankedAndCut ==
    role_pc = "done" =>
        /\ Len(role_result) \in 1..5
        /\ IF Qualifying = {}
           THEN role_result = <<"Software Developer", "IT Professional">>
           ELSE /\ Len(role_result) = Min(5, Cardinality(Qualifying))
                /\ \A i \in 1..Len(role_result) :
                       /\ \E n \in Qualifying : ROLE_KEYWORDS[n].role = role_result[i]
                       /\ \A j \in (i + 1)..Len(role_result) :
                              Before(RoleNumber(role_result[i]), RoleNumber(role_result[j]))
                       /\ \A m \in Qualifying :
                              \/ \E j \in 1..Len(role_result) : role_result[j] = ROLE_KEYWORDS[m].role
                              \/ Before(RoleNumber(role_result[i]), m)

\* A resume with six qualifying roles: the five returned, the three roles of
\* two matches in declaration order and the sixth, Android Developer, cut
C20_Witness_SixQualifyFiveReturned ==
    /\ role_pc = "done"
    /\ Cardinality(Qualifying) = 6
    /\ role_result = <<"Frontend Developer", "Java Developer", "Data Scientist",
                       "Python Developer", "ML Engineer">>

\* ---- C21 ----
\* The place of the first occurrence of token t in the tokens of the text read
FirstPlace(t) == CHOOSE i \in 1..Len(tokenize(kw_text)) :
                     tokenize(kw_text)[i] = t /\ \A j \in 1..(i - 1) : tokenize(kw_text)[j] # t

\* C21: extract_keywords returns at most top_n distinct tokens, none a stop
\* word and none of length 2 or less, ordered by descending frequency in the
\* text with equal-frequency tokens in order of first occurrence.
C21_KeywordsRankedAndCut ==
    kw_pc = "done" =>
        /\ Len(kw_result) <= kw_top_n
        /\ NoRepeat(kw_result)
        /\ \A i \in 1..Len(kw_result) :
               /\ Count(kw_result[i], tokenize(kw_text)) > 0
               /\ kw_result[i] \notin STOP_WORDS
               /\ Len(kw_result[i]) > 2
               /\ \A j \in (i + 1)..Len(kw_result) :
                      \/ Count(kw_result[i], tokenize(kw_text))
                           > Count(kw_result[j], tokenize(kw_text))
                      \/ /\ Count(kw_result[i], tokenize(kw_text))
                              = Count(kw_result[j], tokenize(kw_text))
                         /\ FirstPlace(kw_result[i]) < FirstPlace(kw_result[j])

\* A text with a stop word and a token of two letters, in which 'python',
\* 'sql' and 'apis' stand twice each and 'leadership' once
C21_Witness_TieKeptInOrderOfOccurrence ==
    /\ kw_pc = "done"
    /\ kw_text = <<<<"Python,", "SQL", "and", "Go">>, <<"leadership", "python">>,
                   <<"5", "apis", "SQL", "apis">>>>
    /\ kw_top_n = 3
    /\ kw_result = <<"python", "sql", "apis">>

\* ---- C22 ----
\* C22: compute_readability returns exactly 50 for the empty string, and more
\* generally for every text that yields no token or no sentence, and never
\* raises (no division by zero).
C22_NeutralReadabilityNeverRaises ==
    read_pc = "done" =>
        /\ read_outcome.status = "returned"
        /\ (read_call.words = 0 \/ read_call.sentences = 0) => read_outcome.value = 50

\* The function of analyzer.py returned 50 for a text of three sentences
\* without a word
C22_Witness_SentencesWithoutWords ==
    /\ read_pc = "done"
    /\ read_call = [fn |-> "analyzer", words |-> 0, sentences |-> 3, long_words |-> 0]
    /\ read_outcome = [status |-> "returned", value |-> 50]

\* ---------------------------------------------------------------------
\* C23  (as stated) Every section that score_section scores on its
\* features gets a suggestion that opens with "Good start, but " when the
\* score is 50 or more and with "Needs work — " when it is below 50.
ScoredOnFeatures ==
    sec_pc = "done" /\ ~TooBrief(sec_args.text)

C23_ToneMarkerByFifty ==
    ScoredOnFeatures =>
        sec_result[1].suggestion.kind =
            IF sec_result[1].score >= 50 THEN "good_start" ELSE "needs_work"

\* C23  (amended) A section scored on its features gets the sentence
\* "Excellent <section> section — ..." without a tone marker when the score
\* is 80 or more, "Good start, but " when it is 50 to 79 and
\* "Needs work — " when it is below 50.
C23_ToneMarkerBelowEighty ==
    ScoredOnFeatures =>
        sec_result[1].suggestion.kind =
            IF sec_result[1].score >= 80 THEN "excellent"
            ELSE IF sec_result[1].score >= 50 THEN "good_start" ELSE "needs_work"

\* A section scored 80 or more on its features, with the sentence "Excellent"
C23_Witness_ExcellentHasNoToneMarker ==
    /\ ScoredOnFeatures
    /\ sec_result[1].score >= 80
    /\ sec_result[1].suggestion.kind = "excellent"

\* ---------------------------------------------------------------------
\* C24  For every section name and every feature vector whose similarity,
\* keyword density and length score lie in [0, 1], the rule-based score is
\* the sum (raised to 5 when it is less) of a semantic term of at most 40,
\* a keyword term of at most 25, a structural term of at most 20 and a
\* length term of at most 15, and the score that score_section returns is
\* an integer from 5 to 100.
InUnit(a) == ~FracLess(a, FracInt(0)) /\ ~FracLess(FracInt(1), a)
Within(a, k) == ~FracLess(a, FracInt(0)) /\ ~FracLess(FracInt(k), a)
SumOfParts(p) == FracAdd(FracAdd(p.base, p.kw_score), FracAdd(p.struct_score, p.len_score))

C24_RuleScoreIsBoundedSum ==
    (/\ rule_pc = "scored"
     /\ InUnit(rule_args.features.semantic_sim)
     /\ InUnit(rule_args.features.kw_density)
     /\ InUnit(rule_args.features.length_score))
    => /\ Within(rule_result.parts.base, 40)
       /\ Within(rule_result.parts.kw_score, 25)
       /\ Within(rule_result.parts.struct_score, 20)
       /\ Within(rule_result.parts.len_score, 15)
       /\ rule_result.value = FracMax(FracInt(5), SumOfParts(rule_result.parts))
       /\ rule_result.score \in 5..100

\* An experience section whose every term is at its limit: the score is 100
C24_Witness_EveryPartAtItsLimit ==
    /\ rule_pc = "scored"
    /\ rule_args.section_name = "experience"
    /\ rule_result.parts.base = FracInt(40)
    /\ rule_result.parts.kw_score = FracInt(25)
    /\ rule_result.parts.struct_score = FracInt(20)
    /\ rule_result.parts.len_score = FracInt(15)
    /\ rule_result.score = 100

\* ---------------------------------------------------------------------
\* C25  compute_jd_match_score is round(100 * (0.5 * full + 0.5 * S))
\* kept within 0..100, where S is the mean of the similarities of the
\* weighted sections present (skills 0.30, experience 0.30, summary 0.15,
\* projects 0.15, education 0.10), each weight divided by the weights of
\* the sections present, and S is full when none of the five is present.
WeightedPresent == StandardSections \cap DOMAIN match_args.section_sims
PresentWeight == SumOver(WeightedPresent, [s \in WeightedPresent |-> SectionWeight(s)])

\* S in hundredths: each similarity times its share of the weight present
RECURSIVE RenormalisedMean(_)
RenormalisedMean(among) ==
    IF among = {} THEN FracInt(0)
    ELSE LET s == CHOOSE x \in among : TRUE
         IN  FracAdd(FracMul(FracInt(match_args.section_sims[s]),
                             Frac(SectionWeight(s), PresentWeight)),
                     RenormalisedMean(among \ {s}))

SectionWeightedSimilarity ==
    IF WeightedPresent = {} THEN FracInt(match_args.full_sim)
    ELSE RenormalisedMean(WeightedPresent)

C25_MatchIsHalfFullHalfSections ==
    match_pc = "done" =>
        match_result =
            Max(0, Min(100, FracRound(
                FracAdd(FracMul(Frac(1, 2), FracInt(match_args.full_sim)),
                        FracMul(Frac(1, 2), SectionWeightedSimilarity)))))

\* Skills at 0.90 and education at 0.76 are the weighted sections present,
\* beside a header: S is (0.90 * 0.30 + 0.76 * 0.10) / 0.40 = 0.865 and,
\* with full at 0.70, the score is round(78.25) = 78
C25_Witness_TwoWeightedSectionsPresent ==
    /\ match_pc = "done"
    /\ match_args.full_sim = 70
    /\ DOMAIN match_args.section_sims = {"skills", "education", "header"}
    /\ match_args.section_sims["skills"] = 90
    /\ match_args.section_sims["education"] = 76
    /\ match_result = 78

\* ---------------------------------------------------------------------
\* C26  _try_improve returns no candidate exactly when no improvement
\* signal fired, or when the rewritten text equals the original and fewer
\* than two signals fired; so every item that generate_content_improvements
\* returns has an improved text different from the original or at least
\* two reasons, comes from a line of at least 20 characters that is not a
\* header, and the items are at most max_improvements.
C26_CandidatesAndItems ==
    imp_pc = "done" =>
        /\ \A i \in 1..Len(imp_result.tries) :
              LET t == imp_result.tries[i]
              IN  ~t.candidate <=>
                      \/ t.issues = <<>>
                      \/ t.improved = t.original /\ Len(t.issues) < 2
        /\ \A i \in 1..Len(imp_result.improvements) :
              LET item == imp_result.improvements[i]
              IN  /\ item.improved # item.original \/ Len(item.issues) >= 2
                  /\ LineLen(item.line) >= 20
                  /\ ~is_header(item.line)
        /\ Len(imp_result.improvements) <= imp_args.max_improvements

\* A line whose weak phrase is spread over several blanks and which lacks
\* two keywords is returned unchanged, with two reasons; a line whose only
\* signal is the keywords is dropped; and the limit of one item is met
C26_Witness_UnchangedTextWithTwoReasons ==
    /\ imp_pc = "done"
    /\ imp_args.max_improvements = 1
    /\ Len(imp_result.tries) = 2
    /\ ~imp_result.tries[1].candidate
    /\ Len(imp_result.tries[1].issues) = 1
    /\ Len(imp_result.improvements) = 1
    /\ imp_result.improvements[1].improved = imp_result.improvements[1].original
    /\ Len(imp_result.improvements[1].issues) = 2

\* ---------------------------------------------------------------------
\* C27  Every token that tokenize returns is in lower case, starts with a
\* letter, holds only letters and the characters + # . and is from 2 to
\* 30 characters long.
C27_TokensOfTwoToThirtyCharacters ==
    tok_pc = "done" =>
        \A i \in 1..Len(tok_result) :
            LET t == tok_result[i]
            IN  /\ \A k \in 1..Len(t) : t[k] \in {"a", "b", "+", "#", "."}
                /\ t[1] \in {"a", "b"}
                /\ Len(t) >= 2
                /\ Len(t) <= 30

\* ---------------------------------------------------------------------
\* C28  In every result of /analyze, found_keywords and missing_keywords
\* share no entry, neither holds an entry twice, and each has 15 entries
\* at most.
C28_KeywordListsDisjointAndShort ==
    (pipe_pc = "responded" /\ pipe_response.status = 200) =>
        LET found == pipe_response.result.found_keywords
            missing == pipe_response.result.missing_keywords
        IN  /\ Range(found) \cap Range(missing) = {}
            /\ \A i, j \in 1..Len(found) : found[i] = found[j] => i = j
            /\ \A i, j \in 1..Len(missing) : missing[i] = missing[j] => i = j
            /\ Len(found) <= 15
            /\ Len(missing) <= 15

\* A job description of nine keywords and eight bigrams, of which the
\* resume holds some: the seventeen entries merged are cut to 15 found
\* keywords, exact matches first
C28_Witness_SeventeenFoundCutToFifteen ==
    /\ pipe_pc = "responded"
    /\ pipe_response.status = 200
    /\ Len(pipe_work.found) = 17
    /\ Len(pipe_response.result.found_keywords) = 15
    /\ pipe_response.result.found_keywords[1] = "python"
    /\ pipe_response.result.missing_keywords = <<>>

\* ---------------------------------------------------------------------
\* C29  get_gemini_response tries the candidates in their order, passing
\* over empty names; it returns the first answer and tries no candidate
\* after it; it raises 502 only after every candidate has failed; and it
\* raises 503 without trying any when Gemini is not configured.
NamedCandidates ==
    Filter(gem_call.candidates, [c \in Range(gem_call.candidates) |-> c # ""])
TriedNames == [i \in 1..Len(gem_tried) |-> gem_tried[i].name]

C29_CandidatesTriedInOrder ==
    /\ Len(gem_tried) <= Len(NamedCandidates)
    /\ TriedNames = SubSeq(NamedCandidates, 1, Len(gem_tried))
    /\ \A i \in 1..(Len(gem_tried) - 1) : ~gem_tried[i].ok
    /\ (gem_tried # <<>> /\ gem_tried[Len(gem_tried)].ok) <=> gem_outcome.status = "returned"
    /\ gem_outcome.status = "HTTPException 502" =>
           /\ gem_call.configured
           /\ TriedNames = NamedCandidates
           /\ \A i \in 1..Len(gem_tried) : ~gem_tried[i].ok
    /\ gem_pc = "done" =>
           (gem_outcome.status = "HTTPException 503" <=> ~gem_call.configured)
    /\ ~gem_call.configured => gem_tried = <<>>

\* GEMINI_MODEL is set to nothing: the first name is passed over, the next
\* two fail and the fourth candidate answers
C29_Witness_ThirdNamedCandidateAnswers ==
    /\ gem_pc = "done"
    /\ gem_call.candidates[1] = ""
    /\ gem_outcome.status = "returned"
    /\ TriedNames = <<"models/gemini-2.5-flash", "models/gemini-2.0-flash",
                      "models/gemini-flash-latest">>

\* ---------------------------------------------------------------------
\* C30  After _load_all_models has run, each entry of models_loaded that
\* /health reports (the dict _model_status, returned as it is) is true
\* exactly when the handle of that model is loaded and requests use it:
\* ats_model, section_model and grade_model are true if and only if the
\* trained regressor and its scaler are both loaded, and false whenever
\* the scorer runs on its rule-based fallback.
C30_HealthReportsLoadedModels ==
    pipe_models.ready =>
        /\ \A r \in Regressors : pipe_models.status[r] <=> Trained(r)
        /\ pipe_models.status["sentence_bert"] <=> pipe_models.sbert

====
